---------------------------- MODULE Spec2Model ----------------------------
(***************************************************************************)
(* A model of the Wind Waker Archipelago plugin (howeasy/tww_apworld_charts).*)
(*                                                                         *)
(* The client part (src/TWWClient.py) is a state machine: the coroutine    *)
(* dolphin_sync_task with the coroutines it awaits (check_death,           *)
(* give_items, check_locations), the network handler TWWContext.on_package *)
(* that the event loop runs while the sync task is suspended, and the game *)
(* (the emulated console's memory), which changes on its own.              *)
(***************************************************************************)
EXTENDS Integers, Sequences, FiniteSets, TLC

(***************************************************************************)
(* Bounds of the model (not program constants).                            *)
(***************************************************************************)
\* Length of the server's list of items for this slot.
MaxItems == 3
\* The game consumes (frees) only give-item slots 0 .. ActiveSlots-1; the
\* slots above still hold items an earlier session left unconsumed.
ActiveSlots == 2
\* The expected-index counter found in the save when the client starts is
\* in 0 .. MaxSavedIdx.
MaxSavedIdx == 1
\* The clock (seconds) runs from 0 to MaxTime.
MaxTime == 4
\* A generated world has up to MaxSpare locations beyond those the progression
\* and dungeon items need (one world has one fewer than they need, and one
\* has enough to use up every pool).
MaxSpare == 3
\* The multiworld's seed, and the state the random module's own generator is
\* found in, are in 0 .. MaxSeed.
MaxSeed == 1

(***************************************************************************)
(* Program constants.                                                      *)
(***************************************************************************)
CONNECTION_REFUSED_GAME_STATUS == "Dolphin failed to connect. Please load a randomized ROM for TWW. Trying again in 5 seconds..."
CONNECTION_REFUSED_SAVE_STATUS == "Dolphin failed to connect. Please load into the save file. Trying again in 5 seconds..."
CONNECTION_LOST_STATUS == "Dolphin connection was lost. Please restart your emulator and make sure TWW is running."
CONNECTION_CONNECTED_STATUS == "Dolphin connected successfully."
CONNECTION_INITIAL_STATUS == "Dolphin connection has not been initiated."

\* ctx.len_give_item_array = 0x10
len_give_item_array == 16
\* The sentinel 0xFF of a free give-item slot.
FREE_SLOT == 255
\* time.time() >= ctx.last_death_link + 3
DEATH_LINK_COOLDOWN == 3
\* The game id a randomized ROM carries at 0x80000000.
GAME_ID == "GZLE99"

(***************************************************************************)
(* Items.py: ITEM_TABLE, in the order of the dict, and the id conversions. *)
(***************************************************************************)
\* Python's None, for a code, an item id or a location id
NoCode == 0 - 1

\* BaseClasses.ItemClassification (a flag enum of the host framework)
IC_filler == 0
IC_progression == 1
IC_useful == 2
IC_progression_skip_balancing == 9

ITEM_ROWS ==
    << [name |-> "Telescope", type |-> "Item", classification |-> IC_filler, code |-> 0, quantity |-> 1, item_id |-> 32],
       [name |-> "Wind Waker", type |-> "Item", classification |-> IC_progression, code |-> 2, quantity |-> 1, item_id |-> 34],
       [name |-> "Grappling Hook", type |-> "Item", classification |-> IC_progression, code |-> 3, quantity |-> 1, item_id |-> 37],
       [name |-> "Spoils Bag", type |-> "Item", classification |-> IC_progression, code |-> 4, quantity |-> 1, item_id |-> 36],
       [name |-> "Boomerang", type |-> "Item", classification |-> IC_progression, code |-> 5, quantity |-> 1, item_id |-> 45],
       [name |-> "Deku Leaf", type |-> "Item", classification |-> IC_progression, code |-> 6, quantity |-> 1, item_id |-> 52],
       [name |-> "Tingle Tuner", type |-> "Item", classification |-> IC_progression, code |-> 7, quantity |-> 1, item_id |-> 33],
       [name |-> "Iron Boots", type |-> "Item", classification |-> IC_progression, code |-> 8, quantity |-> 1, item_id |-> 41],
       [name |-> "Magic Armor", type |-> "Item", classification |-> IC_progression, code |-> 9, quantity |-> 1, item_id |-> 42],
       [name |-> "Bait Bag", type |-> "Item", classification |-> IC_progression, code |-> 10, quantity |-> 1, item_id |-> 44],
       [name |-> "Bombs", type |-> "Item", classification |-> IC_progression, code |-> 11, quantity |-> 1, item_id |-> 49],
       [name |-> "Delivery Bag", type |-> "Item", classification |-> IC_progression, code |-> 12, quantity |-> 1, item_id |-> 48],
       [name |-> "Hookshot", type |-> "Item", classification |-> IC_progression, code |-> 13, quantity |-> 1, item_id |-> 47],
       [name |-> "Skull Hammer", type |-> "Item", classification |-> IC_progression, code |-> 14, quantity |-> 1, item_id |-> 51],
       [name |-> "Power Bracelets", type |-> "Item", classification |-> IC_progression, code |-> 15, quantity |-> 1, item_id |-> 40],
       [name |-> "Hero's Charm", type |-> "Item", classification |-> IC_filler, code |-> 16, quantity |-> 1, item_id |-> 67],
       [name |-> "Hurricane Spin", type |-> "Item", classification |-> IC_filler, code |-> 17, quantity |-> 1, item_id |-> 170],
       [name |-> "Dragon Tingle Statue", type |-> "Item", classification |-> IC_progression, code |-> 18, quantity |-> 1, item_id |-> 163],
       [name |-> "Forbidden Tingle Statue", type |-> "Item", classification |-> IC_progression, code |-> 19, quantity |-> 1, item_id |-> 164],
       [name |-> "Goddess Tingle Statue", type |-> "Item", classification |-> IC_progression, code |-> 20, quantity |-> 1, item_id |-> 165],
       [name |-> "Earth Tingle Statue", type |-> "Item", classification |-> IC_progression, code |-> 21, quantity |-> 1, item_id |-> 166],
       [name |-> "Wind Tingle Statue", type |-> "Item", classification |-> IC_progression, code |-> 22, quantity |-> 1, item_id |-> 167],
       [name |-> "Wind's Requiem", type |-> "Item", classification |-> IC_progression, code |-> 23, quantity |-> 1, item_id |-> 109],
       [name |-> "Ballad of Gales", type |-> "Item", classification |-> IC_progression, code |-> 24, quantity |-> 1, item_id |-> 110],
       [name |-> "Command Melody", type |-> "Item", classification |-> IC_progression, code |-> 25, quantity |-> 1, item_id |-> 111],
       [name |-> "Earth God's Lyric", type |-> "Item", classification |-> IC_progression, code |-> 26, quantity |-> 1, item_id |-> 112],
       [name |-> "Wind God's Aria", type |-> "Item", classification |-> IC_progression, code |-> 27, quantity |-> 1, item_id |-> 113],
       [name |-> "Song of Passing", type |-> "Item", classification |-> IC_progression, code |-> 28, quantity |-> 1, item_id |-> 114],
       [name |-> "Triforce Shard 1", type |-> "Item", classification |-> IC_progression, code |-> 29, quantity |-> 1, item_id |-> 97],
       [name |-> "Triforce Shard 2", type |-> "Item", classification |-> IC_progression, code |-> 30, quantity |-> 1, item_id |-> 98],
       [name |-> "Triforce Shard 3", type |-> "Item", classification |-> IC_progression, code |-> 31, quantity |-> 1, item_id |-> 99],
       [name |-> "Triforce Shard 4", type |-> "Item", classification |-> IC_progression, code |-> 32, quantity |-> 1, item_id |-> 100],
       [name |-> "Triforce Shard 5", type |-> "Item", classification |-> IC_progression, code |-> 33, quantity |-> 1, item_id |-> 101],
       [name |-> "Triforce Shard 6", type |-> "Item", classification |-> IC_progression, code |-> 34, quantity |-> 1, item_id |-> 102],
       [name |-> "Triforce Shard 7", type |-> "Item", classification |-> IC_progression, code |-> 35, quantity |-> 1, item_id |-> 103],
       [name |-> "Triforce Shard 8", type |-> "Item", classification |-> IC_progression, code |-> 36, quantity |-> 1, item_id |-> 104],
       [name |-> "Skull Necklace", type |-> "Item", classification |-> IC_filler, code |-> 37, quantity |-> 9, item_id |-> 69],
       [name |-> "Boko Baba Seed", type |-> "Item", classification |-> IC_filler, code |-> 38, quantity |-> 1, item_id |-> 70],
       [name |-> "Golden Feather", type |-> "Item", classification |-> IC_filler, code |-> 39, quantity |-> 9, item_id |-> 71],
       [name |-> "Knight's Crest", type |-> "Item", classification |-> IC_filler, code |-> 40, quantity |-> 3, item_id |-> 72],
       [name |-> "Red Chu Jelly", type |-> "Item", classification |-> IC_filler, code |-> 41, quantity |-> 1, item_id |-> 73],
       [name |-> "Green Chu Jelly", type |-> "Item", classification |-> IC_filler, code |-> 42, quantity |-> 1, item_id |-> 74],
       [name |-> "Joy Pendant", type |-> "Item", classification |-> IC_filler, code |-> 43, quantity |-> 20, item_id |-> 31],
       [name |-> "All-Purpose Bait", type |-> "Item", classification |-> IC_filler, code |-> 44, quantity |-> 1, item_id |-> 130],
       [name |-> "Hyoi Pear", type |-> "Item", classification |-> IC_filler, code |-> 45, quantity |-> 4, item_id |-> 131],
       [name |-> "Note to Mom", type |-> "Item", classification |-> IC_progression, code |-> 46, quantity |-> 1, item_id |-> 153],
       [name |-> "Maggie's Letter", type |-> "Item", classification |-> IC_progression, code |-> 47, quantity |-> 1, item_id |-> 154],
       [name |-> "Moblin's Letter", type |-> "Item", classification |-> IC_progression, code |-> 48, quantity |-> 1, item_id |-> 155],
       [name |-> "Cabana Deed", type |-> "Item", classification |-> IC_progression, code |-> 49, quantity |-> 1, item_id |-> 156],
       [name |-> "Fill-Up Coupon", type |-> "Item", classification |-> IC_filler, code |-> 50, quantity |-> 1, item_id |-> 158],
       [name |-> "Nayru's Pearl", type |-> "Item", classification |-> IC_progression, code |-> 51, quantity |-> 1, item_id |-> 105],
       [name |-> "Din's Pearl", type |-> "Item", classification |-> IC_progression, code |-> 52, quantity |-> 1, item_id |-> 106],
       [name |-> "Farore's Pearl", type |-> "Item", classification |-> IC_progression, code |-> 53, quantity |-> 1, item_id |-> 107],
       [name |-> "Progressive Sword", type |-> "Item", classification |-> IC_progression, code |-> 54, quantity |-> 4, item_id |-> 56],
       [name |-> "Progressive Shield", type |-> "Item", classification |-> IC_progression, code |-> 55, quantity |-> 2, item_id |-> 59],
       [name |-> "Progressive Picto Box", type |-> "Item", classification |-> IC_progression, code |-> 56, quantity |-> 2, item_id |-> 35],
       [name |-> "Progressive Bow", type |-> "Item", classification |-> IC_progression, code |-> 57, quantity |-> 3, item_id |-> 39],
       [name |-> "Progressive Magic Meter", type |-> "Item", classification |-> IC_progression, code |-> 58, quantity |-> 2, item_id |-> 177],
       [name |-> "Progressive Quiver", type |-> "Item", classification |-> IC_progression, code |-> 59, quantity |-> 2, item_id |-> 175],
       [name |-> "Progressive Bomb Bag", type |-> "Item", classification |-> IC_useful, code |-> 60, quantity |-> 2, item_id |-> 173],
       [name |-> "Progressive Wallet", type |-> "Item", classification |-> IC_progression, code |-> 61, quantity |-> 2, item_id |-> 171],
       [name |-> "Empty Bottle", type |-> "Item", classification |-> IC_progression, code |-> 62, quantity |-> 4, item_id |-> 80],
       [name |-> "Triforce Chart 1", type |-> "Item", classification |-> IC_progression_skip_balancing, code |-> 63, quantity |-> 1, item_id |-> 254],
       [name |-> "Triforce Chart 2", type |-> "Item", classification |-> IC_progression_skip_balancing, code |-> 64, quantity |-> 1, item_id |-> 253],
       [name |-> "Triforce Chart 3", type |-> "Item", classification |-> IC_progression_skip_balancing, code |-> 65, quantity |-> 1, item_id |-> 252],
       [name |-> "Triforce Chart 4", type |-> "Item", classification |-> IC_progression_skip_balancing, code |-> 66, quantity |-> 1, item_id |-> 251],
       [name |-> "Triforce Chart 5", type |-> "Item", classification |-> IC_progression_skip_balancing, code |-> 67, quantity |-> 1, item_id |-> 250],
       [name |-> "Triforce Chart 6", type |-> "Item", classification |-> IC_progression_skip_balancing, code |-> 68, quantity |-> 1, item_id |-> 249],
       [name |-> "Triforce Chart 7", type |-> "Item", classification |-> IC_progression_skip_balancing, code |-> 69, quantity |-> 1, item_id |-> 248],
       [name |-> "Triforce Chart 8", type |-> "Item", classification |-> IC_progression_skip_balancing, code |-> 70, quantity |-> 1, item_id |-> 247],
       [name |-> "Treasure Chart 1", type |-> "Item", classification |-> IC_progression_skip_balancing, code |-> 71, quantity |-> 1, item_id |-> 231],
       [name |-> "Treasure Chart 2", type |-> "Item", classification |-> IC_progression_skip_balancing, code |-> 72, quantity |-> 1, item_id |-> 238],
       [name |-> "Treasure Chart 3", type |-> "Item", classification |-> IC_progression_skip_balancing, code |-> 73, quantity |-> 1, item_id |-> 224],
       [name |-> "Treasure Chart 4", type |-> "Item", classification |-> IC_progression_skip_balancing, code |-> 74, quantity |-> 1, item_id |-> 225],
       [name |-> "Treasure Chart 5", type |-> "Item", classification |-> IC_progression_skip_balancing, code |-> 75, quantity |-> 1, item_id |-> 242],
       [name |-> "Treasure Chart 6", type |-> "Item", classification |-> IC_progression_skip_balancing, code |-> 76, quantity |-> 1, item_id |-> 234],
       [name |-> "Treasure Chart 7", type |-> "Item", classification |-> IC_progression_skip_balancing, code |-> 77, quantity |-> 1, item_id |-> 204],
       [name |-> "Treasure Chart 8", type |-> "Item", classification |-> IC_progression_skip_balancing, code |-> 78, quantity |-> 1, item_id |-> 212],
       [name |-> "Treasure Chart 9", type |-> "Item", classification |-> IC_progression_skip_balancing, code |-> 79, quantity |-> 1, item_id |-> 218],
       [name |-> "Treasure Chart 10", type |-> "Item", classification |-> IC_progression_skip_balancing, code |-> 80, quantity |-> 1, item_id |-> 222],
       [name |-> "Treasure Chart 11", type |-> "Item", classification |-> IC_progression_skip_balancing, code |-> 81, quantity |-> 1, item_id |-> 246],
       [name |-> "Treasure Chart 12", type |-> "Item", classification |-> IC_progression_skip_balancing, code |-> 82, quantity |-> 1, item_id |-> 233],
       [name |-> "Treasure Chart 13", type |-> "Item", classification |-> IC_progression_skip_balancing, code |-> 83, quantity |-> 1, item_id |-> 207],
       [name |-> "Treasure Chart 14", type |-> "Item", classification |-> IC_progression_skip_balancing, code |-> 84, quantity |-> 1, item_id |-> 221],
       [name |-> "Treasure Chart 15", type |-> "Item", classification |-> IC_progression_skip_balancing, code |-> 85, quantity |-> 1, item_id |-> 245],
       [name |-> "Treasure Chart 16", type |-> "Item", classification |-> IC_progression_skip_balancing, code |-> 86, quantity |-> 1, item_id |-> 227],
       [name |-> "Treasure Chart 17", type |-> "Item", classification |-> IC_progression_skip_balancing, code |-> 87, quantity |-> 1, item_id |-> 215],
       [name |-> "Treasure Chart 18", type |-> "Item", classification |-> IC_progression_skip_balancing, code |-> 88, quantity |-> 1, item_id |-> 228],
       [name |-> "Treasure Chart 19", type |-> "Item", classification |-> IC_progression_skip_balancing, code |-> 89, quantity |-> 1, item_id |-> 209],
       [name |-> "Treasure Chart 20", type |-> "Item", classification |-> IC_progression_skip_balancing, code |-> 90, quantity |-> 1, item_id |-> 243],
       [name |-> "Treasure Chart 21", type |-> "Item", classification |-> IC_progression_skip_balancing, code |-> 91, quantity |-> 1, item_id |-> 206],
       [name |-> "Treasure Chart 22", type |-> "Item", classification |-> IC_progression_skip_balancing, code |-> 92, quantity |-> 1, item_id |-> 217],
       [name |-> "Treasure Chart 23", type |-> "Item", classification |-> IC_progression_skip_balancing, code |-> 93, quantity |-> 1, item_id |-> 241],
       [name |-> "Treasure Chart 24", type |-> "Item", classification |-> IC_progression_skip_balancing, code |-> 94, quantity |-> 1, item_id |-> 235],
       [name |-> "Treasure Chart 25", type |-> "Item", classification |-> IC_progression_skip_balancing, code |-> 95, quantity |-> 1, item_id |-> 214],
       [name |-> "Treasure Chart 26", type |-> "Item", classification |-> IC_progression_skip_balancing, code |-> 96, quantity |-> 1, item_id |-> 211],
       [name |-> "Treasure Chart 27", type |-> "Item", classification |-> IC_progression_skip_balancing, code |-> 97, quantity |-> 1, item_id |-> 205],
       [name |-> "Treasure Chart 28", type |-> "Item", classification |-> IC_progression_skip_balancing, code |-> 98, quantity |-> 1, item_id |-> 226],
       [name |-> "Treasure Chart 29", type |-> "Item", classification |-> IC_progression_skip_balancing, code |-> 99, quantity |-> 1, item_id |-> 230],
       [name |-> "Treasure Chart 30", type |-> "Item", classification |-> IC_progression_skip_balancing, code |-> 100, quantity |-> 1, item_id |-> 244],
       [name |-> "Treasure Chart 31", type |-> "Item", classification |-> IC_progression_skip_balancing, code |-> 101, quantity |-> 1, item_id |-> 240],
       [name |-> "Treasure Chart 32", type |-> "Item", classification |-> IC_progression_skip_balancing, code |-> 102, quantity |-> 1, item_id |-> 208],
       [name |-> "Treasure Chart 33", type |-> "Item", classification |-> IC_progression_skip_balancing, code |-> 103, quantity |-> 1, item_id |-> 239],
       [name |-> "Treasure Chart 34", type |-> "Item", classification |-> IC_progression_skip_balancing, code |-> 104, quantity |-> 1, item_id |-> 229],
       [name |-> "Treasure Chart 35", type |-> "Item", classification |-> IC_progression_skip_balancing, code |-> 105, quantity |-> 1, item_id |-> 232],
       [name |-> "Treasure Chart 36", type |-> "Item", classification |-> IC_progression_skip_balancing, code |-> 106, quantity |-> 1, item_id |-> 216],
       [name |-> "Treasure Chart 37", type |-> "Item", classification |-> IC_progression_skip_balancing, code |-> 107, quantity |-> 1, item_id |-> 213],
       [name |-> "Treasure Chart 38", type |-> "Item", classification |-> IC_progression_skip_balancing, code |-> 108, quantity |-> 1, item_id |-> 237],
       [name |-> "Treasure Chart 39", type |-> "Item", classification |-> IC_progression_skip_balancing, code |-> 109, quantity |-> 1, item_id |-> 236],
       [name |-> "Treasure Chart 40", type |-> "Item", classification |-> IC_progression_skip_balancing, code |-> 110, quantity |-> 1, item_id |-> 223],
       [name |-> "Treasure Chart 41", type |-> "Item", classification |-> IC_progression_skip_balancing, code |-> 111, quantity |-> 1, item_id |-> 210],
       [name |-> "Tingle's Chart", type |-> "Item", classification |-> IC_filler, code |-> 112, quantity |-> 1, item_id |-> 220],
       [name |-> "Ghost Ship Chart", type |-> "Item", classification |-> IC_progression, code |-> 113, quantity |-> 1, item_id |-> 219],
       [name |-> "Octo Chart", type |-> "Item", classification |-> IC_filler, code |-> 114, quantity |-> 1, item_id |-> 202],
       [name |-> "Great Fairy Chart", type |-> "Item", classification |-> IC_filler, code |-> 115, quantity |-> 1, item_id |-> 201],
       [name |-> "Secret Cave Chart", type |-> "Item", classification |-> IC_filler, code |-> 116, quantity |-> 1, item_id |-> 198],
       [name |-> "Light Ring Chart", type |-> "Item", classification |-> IC_filler, code |-> 117, quantity |-> 1, item_id |-> 197],
       [name |-> "Platform Chart", type |-> "Item", classification |-> IC_filler, code |-> 118, quantity |-> 1, item_id |-> 196],
       [name |-> "Beedle's Chart", type |-> "Item", classification |-> IC_filler, code |-> 119, quantity |-> 1, item_id |-> 195],
       [name |-> "Submarine Chart", type |-> "Item", classification |-> IC_filler, code |-> 120, quantity |-> 1, item_id |-> 194],
       [name |-> "Green Rupee", type |-> "Item", classification |-> IC_filler, code |-> 121, quantity |-> 1, item_id |-> 1],
       [name |-> "Blue Rupee", type |-> "Item", classification |-> IC_filler, code |-> 122, quantity |-> 2, item_id |-> 2],
       [name |-> "Yellow Rupee", type |-> "Item", classification |-> IC_filler, code |-> 123, quantity |-> 3, item_id |-> 3],
       [name |-> "Red Rupee", type |-> "Item", classification |-> IC_filler, code |-> 124, quantity |-> 8, item_id |-> 4],
       [name |-> "Purple Rupee", type |-> "Item", classification |-> IC_filler, code |-> 125, quantity |-> 10, item_id |-> 5],
       [name |-> "Orange Rupee", type |-> "Item", classification |-> IC_filler, code |-> 126, quantity |-> 15, item_id |-> 6],
       [name |-> "Silver Rupee", type |-> "Item", classification |-> IC_filler, code |-> 127, quantity |-> 20, item_id |-> 15],
       [name |-> "Rainbow Rupee", type |-> "Item", classification |-> IC_filler, code |-> 128, quantity |-> 1, item_id |-> 184],
       [name |-> "Piece of Heart", type |-> "Item", classification |-> IC_filler, code |-> 129, quantity |-> 44, item_id |-> 7],
       [name |-> "Heart Container", type |-> "Item", classification |-> IC_filler, code |-> 130, quantity |-> 6, item_id |-> 8],
       [name |-> "DRC Big Key", type |-> "Big Key", classification |-> IC_progression, code |-> 131, quantity |-> 1, item_id |-> 20],
       [name |-> "DRC Small Key", type |-> "Small Key", classification |-> IC_progression, code |-> 132, quantity |-> 4, item_id |-> 19],
       [name |-> "FW Big Key", type |-> "Big Key", classification |-> IC_progression, code |-> 133, quantity |-> 1, item_id |-> 64],
       [name |-> "FW Small Key", type |-> "Small Key", classification |-> IC_progression, code |-> 134, quantity |-> 1, item_id |-> 29],
       [name |-> "TotG Big Key", type |-> "Big Key", classification |-> IC_progression, code |-> 135, quantity |-> 1, item_id |-> 92],
       [name |-> "TotG Small Key", type |-> "Small Key", classification |-> IC_progression, code |-> 136, quantity |-> 2, item_id |-> 91],
       [name |-> "ET Big Key", type |-> "Big Key", classification |-> IC_progression, code |-> 138, quantity |-> 1, item_id |-> 116],
       [name |-> "ET Small Key", type |-> "Small Key", classification |-> IC_progression, code |-> 139, quantity |-> 3, item_id |-> 115],
       [name |-> "WT Big Key", type |-> "Big Key", classification |-> IC_progression, code |-> 140, quantity |-> 1, item_id |-> 129],
       [name |-> "WT Small Key", type |-> "Small Key", classification |-> IC_progression, code |-> 141, quantity |-> 2, item_id |-> 119],
       [name |-> "DRC Dungeon Map", type |-> "Map", classification |-> IC_filler, code |-> 142, quantity |-> 1, item_id |-> 27],
       [name |-> "DRC Compass", type |-> "Compass", classification |-> IC_filler, code |-> 143, quantity |-> 1, item_id |-> 28],
       [name |-> "FW Dungeon Map", type |-> "Map", classification |-> IC_filler, code |-> 144, quantity |-> 1, item_id |-> 65],
       [name |-> "FW Compass", type |-> "Compass", classification |-> IC_filler, code |-> 145, quantity |-> 1, item_id |-> 90],
       [name |-> "TotG Dungeon Map", type |-> "Map", classification |-> IC_filler, code |-> 146, quantity |-> 1, item_id |-> 93],
       [name |-> "TotG Compass", type |-> "Compass", classification |-> IC_filler, code |-> 147, quantity |-> 1, item_id |-> 94],
       [name |-> "FF Dungeon Map", type |-> "Map", classification |-> IC_filler, code |-> 148, quantity |-> 1, item_id |-> 95],
       [name |-> "FF Compass", type |-> "Compass", classification |-> IC_filler, code |-> 149, quantity |-> 1, item_id |-> 96],
       [name |-> "ET Dungeon Map", type |-> "Map", classification |-> IC_filler, code |-> 150, quantity |-> 1, item_id |-> 117],
       [name |-> "ET Compass", type |-> "Compass", classification |-> IC_filler, code |-> 151, quantity |-> 1, item_id |-> 118],
       [name |-> "WT Dungeon Map", type |-> "Map", classification |-> IC_filler, code |-> 152, quantity |-> 1, item_id |-> 132],
       [name |-> "WT Compass", type |-> "Compass", classification |-> IC_filler, code |-> 153, quantity |-> 1, item_id |-> 133],
       [name |-> "Victory", type |-> "Event", classification |-> IC_progression, code |-> NoCode, quantity |-> 1, item_id |-> NoCode] >>

\* the keys of ITEM_TABLE
ItemKeys == {ITEM_ROWS[k].name : k \in 1..Len(ITEM_ROWS)}

\* the dict of the entries lo..hi (a later entry replaces an earlier one of
\* the same key)
RECURSIVE ItemDict(_, _)
ItemDict(lo, hi) ==
    IF lo = hi THEN ITEM_ROWS[lo].name :> ITEM_ROWS[lo]
    ELSE ItemDict(((lo + hi) \div 2) + 1, hi) @@ ItemDict(lo, (lo + hi) \div 2)

ITEM_TABLE == ItemDict(1, Len(ITEM_ROWS))

\* the items the server's list is drawn from
ItemNames == {"Wind Waker", "Triforce Chart 1"}

TWWItem_base_id == 2322432

TWWItem_get_apid(code) == TWWItem_base_id + code

\* {TWWItem.get_apid(data.code): item ... if data.code is not None}
RECURSIVE IdDict(_, _)
IdDict(lo, hi) ==
    IF lo = hi
    THEN IF ITEM_ROWS[lo].code # NoCode
         THEN TWWItem_get_apid(ITEM_ROWS[lo].code) :> ITEM_ROWS[lo].name
         ELSE [id \in {} |-> ""]
    ELSE IdDict(((lo + hi) \div 2) + 1, hi) @@ IdDict(lo, (lo + hi) \div 2)

LOOKUP_ID_TO_NAME == IdDict(1, Len(ITEM_ROWS))

(***************************************************************************)
(* read_short / write_short: two bytes, big-endian (int.from_bytes and     *)
(* int.to_bytes with their default byte order).                            *)
(***************************************************************************)
read_short(bytes) == bytes[1] * 256 + bytes[2]

to_bytes_2(value) == <<value \div 256, value % 256>>

(***************************************************************************)
(* check_ingame: the 8 bytes of the stage name, written without the NUL    *)
(* padding.                                                                *)
(***************************************************************************)
StageNames == {"sea_T", "Name", "sea"}

check_ingame(current_stage_name) ==
    current_stage_name # "sea_T" /\ current_stage_name # "Name"

(***************************************************************************)
(* TWWContext.on_package, "ReceivedItems".                                 *)
(***************************************************************************)
\* variant: every packet is accepted
AcceptsPacket_Any(index, last) == TRUE

\* if args["index"] >= self.last_rcvd_index
AcceptsPacket(index, last) == index >= last

\* the for loop appending (item, last_rcvd_index) and counting up
AppendItems(list, index, items) ==
    list \o [k \in 1..Len(items) |-> [item |-> items[k], index |-> index + k - 1]]

\* list.sort(key=lambda v: v[1]): a stable sort by index (insertion sort)
RECURSIVE InsertByIndex(_, _)
InsertByIndex(sorted, e) ==
    IF sorted = <<>> THEN <<e>>
    ELSE IF sorted[Len(sorted)].index <= e.index THEN Append(sorted, e)
    ELSE Append(InsertByIndex(SubSeq(sorted, 1, Len(sorted) - 1), e), sorted[Len(sorted)])

RECURSIVE SortByIndex(_)
SortByIndex(list) ==
    IF list = <<>> THEN <<>>
    ELSE InsertByIndex(SortByIndex(SubSeq(list, 1, Len(list) - 1)), list[Len(list)])

\* self.items_received_2 after the packet
ReceivedItemsList(list, last, index, items) ==
    SortByIndex(IF AcceptsPacket(index, last) THEN AppendItems(list, index, items) ELSE list)

\* variant: last_rcvd_index is not counted up in the for loop
ReceivedItemsLast_NotAdvanced(last, index, items) ==
    IF AcceptsPacket(index, last) THEN index ELSE last

\* self.last_rcvd_index after the packet
ReceivedItemsLast(last, index, items) ==
    IF AcceptsPacket(index, last) THEN index + Len(items) ELSE last

(***************************************************************************)
(* _give_item and give_items: the decisions.                               *)
(***************************************************************************)
\* the slots _give_item's for loop finds holding 0xFF
FreeSlots(array) == {i \in 0..(len_give_item_array - 1) : array[i] = FREE_SLOT}

\* variant: the slot's value is not tested (slot 0 is written)
FirstFreeSlot_NotTested(array) == 0

\* variant: the scan takes the last slot holding 0xFF
FirstFreeSlot_Last(array) ==
    IF FreeSlots(array) = {} THEN -1
    ELSE CHOOSE i \in FreeSlots(array) : \A j \in FreeSlots(array) : i >= j

\* variant: the scan starts at slot 1 (range(1, len_give_item_array))
FirstFreeSlot_SkipFirst(array) ==
    IF FreeSlots(array) \ {0} = {} THEN -1
    ELSE CHOOSE i \in FreeSlots(array) \ {0} : \A j \in FreeSlots(array) \ {0} : i <= j

\* the first of them (the loop returns at the first hit); -1 when there is none
FirstFreeSlot(array) ==
    IF FreeSlots(array) = {} THEN -1
    ELSE CHOOSE i \in FreeSlots(array) : \A j \in FreeSlots(array) : i <= j

\* ITEM_TABLE[LOOKUP_ID_TO_NAME[item.item]].item_id
GameItemId(network_item) == ITEM_TABLE[LOOKUP_ID_TO_NAME[network_item]].item_id

\* variant: every entry of the list is given, whatever the counter read
ShouldGive_Always(expected, idx) == TRUE

\* if expected_idx <= idx
ShouldGive(expected, idx) == expected <= idx

\* variant: write_short(EXPECTED_INDEX_ADDR, idx)
NextExpected_Same(idx) == idx

\* write_short(EXPECTED_INDEX_ADDR, idx + 1)
NextExpected(idx) == idx + 1

\* the next position at or after pos whose entry is to be given; Len + 1 when
\* the for loop runs out
RECURSIVE NextGivePos(_, _, _)
NextGivePos(list, pos, expected) ==
    IF pos > Len(list) THEN pos
    ELSE IF ShouldGive(expected, list[pos].index) THEN pos
    ELSE NextGivePos(list, pos + 1, expected)


(***************************************************************************)
(* Locations.py is not part of the sources at hand: a table of four        *)
(* locations stands for LOCATION_TABLE (one chest on the sea, one chest of *)
(* the sea's alternate stage, one special-cased mailbox letter, and the    *)
(* win condition, whose code is None and which comes last), and            *)
(* TWWLocation.get_apid offsets a code by a base and keeps None.  An entry *)
(* has the address of its flag; the entries of the types CHEST and SWTCH   *)
(* are read from the bitfields of the stage, and their address is not      *)
(* used.                                                                   *)
(***************************************************************************)
TWWLocation_base_id == 2326528

TWWLocation_get_apid(code) == IF code = NoCode THEN NoCode ELSE TWWLocation_base_id + code

LOCATION_TABLE ==
    << [name |-> "The Great Sea - Chest", type |-> "CHEST", stage_id |-> 0, bit |-> 0,
        address |-> 0, code |-> 1],
       [name |-> "The Great Sea (Alt) - Chest", type |-> "CHEST", stage_id |-> 1, bit |-> 1,
        address |-> 0, code |-> 2],
       [name |-> "Mailbox - Letter from Grandma", type |-> "SPECL", stage_id |-> 0, bit |-> 0,
        address |-> 1, code |-> 3],
       [name |-> "Defeat Ganondorf", type |-> "SWTCH", stage_id |-> 8, bit |-> 0,
        address |-> 0, code |-> NoCode] >>

StageIds == {0, 1, 8}

LocationIds == {TWWLocation_get_apid(LOCATION_TABLE[k].code) : k \in 1..Len(LOCATION_TABLE)} \ {NoCode}

(***************************************************************************)
(* check_locations: the decisions.                                         *)
(***************************************************************************)
RECURSIVE Pow2(_)
Pow2(n) == IF n = 0 THEN 1 ELSE 2 * Pow2(n - 1)

\* (bitfield >> bit) & 1
BitOf(bitfield, bit) == (bitfield \div Pow2(bit)) % 2

\* checked = was_moblins_owned and 0x9B not in dbag_contents
MaggieChecked(letter_owned, dbag_contents) ==
    /\ BitOf(letter_owned, 15) = 1
    /\ \A offset \in 1..Len(dbag_contents) : dbag_contents[offset] # 155    \* 0x9B

\* read_byte(data.address) & 0x3 == 0x3
MailChecked(byte) == byte % 4 = 3

\* the special-case checks, by the name of the location
SpecialChecked(location, data, memory) ==
    CASE location = "Windfall Island - Maggie - Delivery Reward" ->
            MaggieChecked(memory.letter_owned, memory.dbag_contents)
      [] location \in {"Mailbox - Letter from Baito's Mother", "Mailbox - Letter from Grandma"} ->
            MailChecked(memory.bytes[data.address])
      [] OTHER -> FALSE

\* match data.type: the bit of the entry in the bitfield (or at the address) of its type
RegularChecked(data, memory) ==
    CASE data.type = "CHART" -> BitOf(memory.charts_bitfield, data.bit) = 1
      [] data.type = "BOCTO" ->
            BitOf(read_short(<<memory.bytes[data.address], memory.bytes[data.address + 1]>>),
                  data.bit) = 1
      [] data.type = "CHEST" -> BitOf(memory.chests_bitfield, data.bit) = 1
      [] data.type = "SWTCH" -> BitOf(memory.switches_bitfield, data.bit) = 1
      [] data.type = "PCKUP" -> BitOf(memory.pickups_bitfield, data.bit) = 1
      [] data.type = "EVENT" -> BitOf(memory.bytes[data.address], data.bit) = 1
      [] OTHER -> FALSE

\* elif curr_stage_id == 0x0 and data.stage_id == 0x1
SeaAltBranch(data, stage) ==
    data.type # "SPECL" /\ data.stage_id # stage /\ stage = 0 /\ data.stage_id = 1

\* assert data.type == TWWLocationType.CHEST fails: the scan ends with an AssertionError
AssertionFails(data, stage) == SeaAltBranch(data, stage) /\ data.type # "CHEST"

\* variant: the stage of the entry is not compared with the current stage
IsChecked_AnyStage(data, stage, memory) ==
    IF data.type = "SPECL"
    THEN SpecialChecked(data.name, data, memory)
    ELSE RegularChecked(data, memory)

\* the value of `checked` for one entry of LOCATION_TABLE, from the memory
\* read (an entry whose assertion fails has none)
IsChecked(data, stage, memory) ==
    IF data.type = "SPECL"
    THEN SpecialChecked(data.name, data, memory)
    ELSE IF data.stage_id = stage
    THEN RegularChecked(data, memory)
    ELSE IF SeaAltBranch(data, stage)
    THEN BitOf(memory.sea_alt_bitfield, data.bit) = 1
    ELSE FALSE

\* the entries among the first n of LOCATION_TABLE a pass finds checked
CheckedEntries(n, stage, memory) ==
    {k \in 1..n : IsChecked(LOCATION_TABLE[k], stage, memory)}

\* the entry reads game memory inside the loop, or its assertion fails: the
\* scan can end there with an exception
MayRaise(data, stage) ==
    \/ data.type = "SPECL" /\ data.name \in {"Windfall Island - Maggie - Delivery Reward",
                                              "Mailbox - Letter from Baito's Mother",
                                              "Mailbox - Letter from Grandma"}
    \/ data.type \in {"BOCTO", "EVENT"} /\ data.stage_id = stage
    \/ AssertionFails(data, stage)

\* the scan gets past its first n entries without an exception of its own making
ScanReaches(n, stage) == \A k \in 1..n : ~AssertionFails(LOCATION_TABLE[k], stage)

\* if location_id: ctx.locations_checked.add(location_id)
NewlyCheckedIds(entries) ==
    {TWWLocation_get_apid(LOCATION_TABLE[k].code) : k \in entries} \ {NoCode}

\* else: the win condition
GoalFound(entries) ==
    \E k \in entries : TWWLocation_get_apid(LOCATION_TABLE[k].code) = NoCode

\* variant: the goal is sent without looking at finished_game
ShouldSendGoal_Always(found, finished) == found

\* if not ctx.finished_game
ShouldSendGoal(found, finished) == found /\ ~finished

\* variant: the whole local set is sent
ChecksToSend_All(local, acknowledged) == local

\* ctx.locations_checked.difference(ctx.checked_locations)
ChecksToSend(local, acknowledged) == local \ acknowledged

(***************************************************************************)
(* check_death: the decision.                                              *)
(***************************************************************************)
\* variant: has_send_death is not looked at
ShouldSendDeath_Resend(sent, time, last) == time >= last + DEATH_LINK_COOLDOWN

\* variant: no cooldown
ShouldSendDeath_NoCooldown(sent, time, last) == ~sent

\* if not ctx.has_send_death and time.time() >= ctx.last_death_link + 3
ShouldSendDeath(sent, time, last) == ~sent /\ time >= last + DEATH_LINK_COOLDOWN

\* if cur_health <= 0
IsDead(cur_health) == cur_health <= 0

(***************************************************************************)
(* randomizers/ItemPool.py: the data.                                      *)
(***************************************************************************)
VANILLA_ROWS ==
    << [name |-> "DRC Small Key", locations |-> << "Dragon Roost Cavern - First Room", "Dragon Roost Cavern - Boarded Up Chest", "Dragon Roost Cavern - Rat Room Boarded Up Chest", "Dragon Roost Cavern - Bird's Nest" >>],
       [name |-> "FW Small Key", locations |-> << "Forbidden Woods - Vine Maze Right Chest" >>],
       [name |-> "TotG Small Key", locations |-> << "Tower of the Gods - Hop Across Floating Boxes", "Tower of the Gods - Floating Platforms Room" >>],
       [name |-> "ET Small Key", locations |-> << "Earth Temple - Transparent Chest in First Crypt", "Earth Temple - Casket in Second Crypt", "Earth Temple - End of Foggy Room With Floormasters" >>],
       [name |-> "WT Small Key", locations |-> << "Wind Temple - Spike Wall Room - First Chest", "Wind Temple - Chest Behind Seven Armos" >>],
       [name |-> "DRC Big Key", locations |-> << "Dragon Roost Cavern - Big Key Chest" >>],
       [name |-> "FW Big Key", locations |-> << "Forbidden Woods - Big Key Chest" >>],
       [name |-> "TotG Big Key", locations |-> << "Tower of the Gods - Big Key Chest" >>],
       [name |-> "ET Big Key", locations |-> << "Earth Temple - Big Key Chest" >>],
       [name |-> "WT Big Key", locations |-> << "Wind Temple - Big Key Chest" >>],
       [name |-> "DRC Dungeon Map", locations |-> << "Dragon Roost Cavern - Alcove With Water Jugs" >>],
       [name |-> "FW Dungeon Map", locations |-> << "Forbidden Woods - First Room" >>],
       [name |-> "TotG Dungeon Map", locations |-> << "Tower of the Gods - Chest Behind Bombable Walls" >>],
       [name |-> "FF Dungeon Map", locations |-> << "Forsaken Fortress - Chest Outside Upper Jail Cell" >>],
       [name |-> "ET Dungeon Map", locations |-> << "Earth Temple - Transparent Chest In Warp Pot Room" >>],
       [name |-> "WT Dungeon Map", locations |-> << "Wind Temple - Chest In Many Cyclones Room" >>],
       [name |-> "DRC Compass", locations |-> << "Dragon Roost Cavern - Rat Room" >>],
       [name |-> "FW Compass", locations |-> << "Forbidden Woods - Vine Maze Left Chest" >>],
       [name |-> "TotG Compass", locations |-> << "Tower of the Gods - Skulls Room Chest" >>],
       [name |-> "FF Compass", locations |-> << "Forsaken Fortress - Chest Guarded By Bokoblin" >>],
       [name |-> "ET Compass", locations |-> << "Earth Temple - Chest In Three Blocks Room" >>],
       [name |-> "WT Compass", locations |-> << "Wind Temple - Chest In Middle Of Hub Room" >>] >>

\* variant: the list of the DRC small keys lacks its last location
VANILLA_DUNGEON_ITEM_LOCATIONS_Short ==
    [n \in {VANILLA_ROWS[k].name : k \in 1..Len(VANILLA_ROWS)} |->
        IF n = "DRC Small Key"
        THEN SubSeq(VANILLA_ROWS[1].locations, 1, Len(VANILLA_ROWS[1].locations) - 1)
        ELSE VANILLA_ROWS[CHOOSE k \in 1..Len(VANILLA_ROWS) : VANILLA_ROWS[k].name = n].locations]

VANILLA_DUNGEON_ITEM_LOCATIONS ==
    [n \in {VANILLA_ROWS[k].name : k \in 1..Len(VANILLA_ROWS)} |->
        VANILLA_ROWS[CHOOSE k \in 1..Len(VANILLA_ROWS) : VANILLA_ROWS[k].name = n].locations]

\* the list better_filler_items of get_pool_core
better_filler_items ==
    << "Blue Chu Jelly", "Skull Necklace", "Boko Baba Seed", "Golden Feather", "Knight's Crest",
       "Red Chu Jelly", "Green Chu Jelly", "Joy Pendant", "All-Purpose Bait", "Hyoi Pear", "Green Rupee",
       "Blue Rupee", "Yellow Rupee", "Red Rupee", "Purple Rupee", "10 Arrows (Pickup)",
       "5 Bombs (Pickup)", "Small Magic Jar (Pickup)", "Large Magic Jar (Pickup)", "Heart (Pickup)",
       "Three Hearts (Pickup)" >>

\* the names get_pool_core removes from the filler pool, in the order of the
\* remove calls
TREASURE_CHARTS ==
    << "Treasure Chart 1", "Treasure Chart 2", "Treasure Chart 3", "Treasure Chart 4", "Treasure Chart 5",
       "Treasure Chart 6", "Treasure Chart 7", "Treasure Chart 8", "Treasure Chart 9",
       "Treasure Chart 10", "Treasure Chart 11", "Treasure Chart 12", "Treasure Chart 13",
       "Treasure Chart 14", "Treasure Chart 15", "Treasure Chart 16", "Treasure Chart 17",
       "Treasure Chart 18", "Treasure Chart 19", "Treasure Chart 20", "Treasure Chart 21",
       "Treasure Chart 22", "Treasure Chart 23", "Treasure Chart 24", "Treasure Chart 25",
       "Treasure Chart 26", "Treasure Chart 27", "Treasure Chart 28", "Treasure Chart 29",
       "Treasure Chart 30", "Treasure Chart 31", "Treasure Chart 32", "Treasure Chart 33",
       "Treasure Chart 34", "Treasure Chart 35", "Treasure Chart 36", "Treasure Chart 37",
       "Treasure Chart 38", "Treasure Chart 39", "Treasure Chart 40", "Treasure Chart 41" >>

TRIFORCE_CHARTS ==
    << "Triforce Chart 1", "Triforce Chart 2", "Triforce Chart 3", "Triforce Chart 4", "Triforce Chart 5",
       "Triforce Chart 6", "Triforce Chart 7", "Triforce Chart 8" >>

(***************************************************************************)
(* The host world's methods get_pool_core calls (the package's __init__.py *)
(* is not part of the sources at hand): determine_item_classification      *)
(* turns the charts into filler when their progression option is off, and  *)
(* get_filler_item_name pops the useful pool, then the filler pool, then   *)
(* draws a consumable with the multiworld's generator.                     *)
(***************************************************************************)
Range(list) == {list[k] : k \in 1..Len(list)}

determine_item_classification(name, options) ==
    IF ~options.progression_triforce_charts /\ name \in Range(TRIFORCE_CHARTS) THEN IC_filler
    ELSE IF ~options.progression_treasure_charts /\ name \in Range(TREASURE_CHARTS) THEN IC_filler
    ELSE NoCode

filler_consumables == <<"Yellow Rupee", "Red Rupee", "Purple Rupee", "Orange Rupee", "Joy Pendant">>

\* the outputs of random.Random(0) .. random.Random(3), 24 leading bits each
MT_STREAM ==
    <<
       <<
          14167047, 6463343, 12716364, 14935814, 7056020, 679215, 4343902, 16197812, 8577766, 8152513, 6793667, 15405415, 13149958, 13922621, 5088743, 16236989,
          7995970, 6007071, 9787526, 14959583, 15235606, 3664860, 8467240, 2336625, 4728454, 2344545, 12680290, 1590996, 10374510, 13411749, 4202798, 16563460,
          15263009, 8934935, 16488404, 11830827, 13593189, 10098241, 15135833, 2465603, 5203412, 1656973, 12244544, 1237192, 15080004, 14268583, 11475346, 5539790,
          7921240, 9392115, 1689485, 5935633, 7284194, 5304900, 10248982, 10744521, 15317783, 3430567, 16216963, 9269809, 8002896, 7427162, 14517491, 8746862,
          4370335, 1044878, 13506125, 15409283, 9205646, 15367837, 235580, 1564842, 12074640, 14094391, 6691148, 11916075, 13838602, 13170915, 11209750, 10490219,
          19173, 10265929, 8280862, 13892596, 14555959, 5589080, 4092145, 12252041, 5456023, 11805162, 14604083, 1056700, 3205573, 15385025, 9521250, 3719574,
          4003310, 13477893, 16232631, 2390659, 13475115, 9109859, 7515682, 1530349, 1349656, 16663492, 5369625, 14681528, 8521829, 16743185, 15650354, 8208870,
          1829687, 5057437, 9248729, 4883691, 11854133, 2093976, 9184534, 5582627, 13664486, 15472782, 9064454, 3409161, 16170527, 13412161, 10119775, 9180997,
          9858578, 4826088, 7465677, 1537331, 10004033, 13387128, 6457569, 5319163, 9657821, 4061884, 4870920, 3084805, 3177459, 13781932, 3132801, 553185,
          10280627, 16463477, 11016916, 4363019, 7994863, 1159058, 1507002, 11387098, 12710484, 2184803, 14709765, 2509038, 15491762, 648297, 14134137, 1346343,
          15068844, 11732689, 15486753, 13914366, 9069761, 11467200, 6564858, 14057045, 11832691, 8800890, 4624373, 8754185, 13616870, 3951063, 14252009, 3610478,
          15016262, 11399688, 9895221, 13845620, 15934410, 7036754, 9725668, 4617271, 7559194, 8265385, 11077079, 10757497, 16714432, 11747834, 15383720, 16482950,
          13309786, 5995632, 1381989, 5441267, 10280794, 1935247, 8161179, 9849479, 10572118, 5624905, 14178049, 3194027, 4077461, 271942, 12272352, 4547262,
          1965187, 11833526, 3698714, 6242134, 13330890, 2860209, 5579030, 7149294, 13688750, 1043416, 1687914, 13138548, 2455487, 14349932, 11704971, 3670411,
          758901, 13709003, 9627874, 10640217, 15267535, 15712193, 8962354, 10102744, 11418390, 1241461, 447897, 2087819, 10653530, 3162851, 10172670, 13926534,
          9662887, 2008156, 6563404, 1535649, 6209917, 13989588, 16450339, 1946931, 610557, 10158674, 363000, 3264694, 16123429, 16285507, 3103314, 12047942,
          2078615, 8040206, 3532887, 12199640, 13434298, 1024834, 15719733, 11397554, 382228, 9130755, 7140699, 10411939, 1702891, 14024119, 4360732, 1174477,
          3704900, 1207484, 10853612, 5050974, 5876957, 7316017, 3025232, 1024122, 8449618, 7837161, 660665, 10007356, 1693177, 11732695, 16579834, 6564525,
          3344635, 4364311, 6015559, 15173291, 12274182, 7888918, 14064785, 15138152, 15409571, 9559129, 2842473, 11705414, 11285036, 3412732, 16215999, 12873968,
          973933, 13231322, 11344783, 2654300, 14183871, 2717138, 5743051, 8883103, 4205835, 1966505, 10012498, 15458835, 7420798, 11167012, 2932984, 221522,
          7912561, 11429993, 6877071, 15101139, 9548127, 14676787, 8532894, 15393282, 5225196, 10887297, 5992010, 6520334, 14053622, 11032969, 4209951, 2573839,
          9405310, 11590082, 208646, 7683196, 12441553, 1326638, 5635744, 12398633, 766659, 9132165, 4712437, 2262199, 4028719, 12787034, 15990856, 8083717,
          5909364, 10236377, 4829789, 11297835, 6026396, 9903216, 15886443, 14964329, 10632524, 14323957, 10419940, 2220368, 12006100, 5205929, 6509848, 12557509,
          6952780, 13906680, 10919163, 1354309, 25572, 9975345, 3226418, 11720272, 5610329, 2685693, 4016733, 3742960, 10693787, 7518463, 6352660, 11917694,
          14687167, 11304072, 9531999, 14672307, 6952585, 529245, 6748921, 14624501, 11774747, 9520606, 7016677, 12955126, 11109803, 11895147, 784832, 2779564,
          7471769, 1071834, 4349106, 11769488, 2645541, 7488757, 8851208, 14846921, 8174960, 15234380, 9418811, 10133059, 12674931, 1160, 14828964, 652804,
          8297720, 5468431, 5235468, 14054891, 7833151, 836461, 13573537, 13802949, 14680337, 16343975, 13630060, 6964850, 3154138, 9203344, 16767491, 16157092,
          10621466, 16417709, 1400344, 14050052, 12172782, 2189791, 16556117, 247116, 6741367, 15930764, 11383592, 7004237, 5304572, 56921, 3582349, 239768,
          12034702, 12662667, 39553, 16445776, 13803142, 11337403, 8864174, 10268695, 1640549, 3195387, 1994876, 10206581, 10892866, 3330552, 14657478, 5073699,
          4697330, 11551784, 16416760, 3057163, 1680753, 7979335, 14326704, 15481507, 6655457, 10530036, 1364749, 366506, 4608933, 15332380, 7599712, 13418829,
          13293285, 1942455, 14451221, 4303167, 2238425, 10965034, 8738673, 13711569, 10918330, 10820308, 5822583, 1931214, 14627447, 2591075, 4670941, 14281433,
          311625, 709636, 682216, 3451672, 11425229, 4356529, 9367654, 5280011, 15879677, 6155456, 15744390, 9520529, 15264769, 14251201, 704719, 14199563,
          12568396, 16126308, 11766277, 10193777, 10995147, 8296092, 11951378, 10806933, 15144963, 7695111, 10739787, 7305481, 6248661, 14619846, 9024947, 2991181,
          3487045, 6301168, 9850331, 4882765, 149268, 2322922, 2533748, 4552890, 5593664, 5662496, 13247678, 6160618, 12054420, 1572151, 5674993, 13076445,
          10410901, 598367, 691270, 4523508, 2749123, 2506785, 16473784, 9788686, 4857521, 6055008, 6623510, 16597750, 9202039, 2175014, 4922552, 1927641,
          8020594, 12256120, 4021600, 15665793, 809607, 5165365, 3012967, 14378687, 8775326, 12224898, 1188881, 5077971, 6764055, 14018366, 5511662, 5020170,
          6957874, 1822868, 1667660, 9409165, 15244744, 8072731, 7952478, 5655273, 14107094, 13386110, 16378412, 13628613, 5765517, 2085824, 8037738, 1946292,
          11737261, 8350599, 7156075, 634587, 5065093, 5621741, 12327076, 11527801, 15005538, 2611610, 15429818, 2794348, 10514986, 9470526, 6301041, 13524424,
          16350412, 16634605, 10718602, 1458305, 1104522, 13552174, 1420519, 3322564, 12580723, 3708749, 1026030, 6456072, 131718, 1645450, 6607001, 9336094,
          8707437, 4862386, 7525324, 15437600, 8197663, 13225290, 9812804, 11985749, 11396805, 3644909, 7097401, 1403636, 6179576, 3693300, 16583591, 16762227,
          4377453, 9818496, 13037577, 2794767, 7234688, 3220302, 6014973, 1929587, 1071358, 13790547, 14488450, 14308594, 11777675, 463369, 15150005, 8821723,
          7576788, 12623821, 11356849, 3383761, 1994983, 8339743, 6676553, 4303014, 3476775, 10754149, 706344, 16727563, 15904152, 13378709, 3622106, 10459169,
          2455420, 1755394, 3321386, 7690810, 6342323, 6067347, 9166924, 13874532, 2538969, 1757350, 16587463, 10003255, 16491822, 8185627, 2489772, 9460741,
          6809987, 10709963, 11407323, 7100770, 14724634, 8744765, 8311532, 11397070, 15385490, 14894508, 5409986, 13984371, 8362450, 16746732, 8365901, 10654619,
          11241878, 14675014, 3388851, 9106825, 10230253, 15624846, 3670403, 162817, 5707949, 11837898, 16149185, 12533232, 15082852, 5339507, 13725748, 5399325,
          595058, 8809840, 2489183, 14671394, 4309763, 10109727, 13156131, 2615657, 14132008, 6358650, 9780247, 4938916, 12048249, 11850975, 13540142, 7892528,
          1113321, 13420863, 1420076, 8665898, 14577644, 15359780, 661287, 1113246, 3776394, 2189328, 681692, 5040685, 256442, 12732207, 14159210, 7526076,
          5546453, 14460339, 2695931, 13432601, 2496776, 14574292, 11007257, 7729852, 16250382, 6229747, 8472488, 6412798, 15117789, 8888697, 8429353, 564016,
          9627982, 1520802, 11384538, 13323544, 13507504, 8690570, 12714552, 10068716, 16618378, 1281076, 12531999, 7153245, 15196478, 12660393, 3457865, 4859757,
          8982794, 15118598, 10043080, 7010202, 13852890, 16316656, 8090201, 14185001, 13271452, 16311376, 6519104, 10190982, 9837965, 3918672, 14282722, 14508546,
          13389216, 343627, 11022371, 14852115, 4038, 12427645, 3052931, 5074135, 8503662, 9567486, 4269120, 5581541, 1100935, 8279724, 14426449, 4395756,
          15820025, 13841544, 5080222, 12960066, 6846331, 6445130, 13590174, 6437072, 1044528, 2748031, 10753941, 15695493, 2136088, 4008944, 4816543, 12238151,
          13924094, 5604003, 931589, 15801823, 602869, 8075384, 7010628, 2363991, 8251554, 14931076, 14484193, 10099325, 12032430, 1369350, 11300189, 11722180,
          2539630, 13594385, 16554178, 5918529, 6897787, 590218, 10263811, 7822862, 6487464, 7698768, 789081, 1702560, 7900209, 13055163, 2539529, 339370,
          544680, 10037812, 10358260, 2226369, 10569080, 5434330, 1766520, 11745388, 9213103, 10888283, 5816123, 3271114, 6432620, 13143555, 13026164, 13043630,
          8226199, 1862219, 14785368, 1009331, 10236110, 11757765, 7838120, 10306761, 10608445, 15668502, 5668440, 10913112, 2085807, 16265266, 11450946, 11972504,
          10436056, 4972538, 13229950, 14246063, 2132537, 16080442, 15297185, 6503615, 13410720, 4929205, 15382818, 12512180, 14638703, 16064970, 11425392, 16498681,
          13593753, 2039310, 8707497, 14435656, 13178321, 16707441, 3173032, 640628, 13121697, 6577111, 7458808, 6234105, 12693913, 3195683, 7641522, 5981980,
          13246597, 10603425, 1263988, 16047365, 748950, 15131832, 15674778, 670764, 8156496, 4284671, 15117469, 447213, 15850832, 8725212, 11182201, 9550543,
          9593158, 14694782, 3623532, 3852975, 1568270, 13024868, 13747153, 14842568, 14911120, 10526490, 13076090, 8429089, 11718926, 8786421, 7048294, 8507839,
          5122278, 15862615, 1903289, 2444279, 7146594, 14962627, 9496121, 7080933, 15483366, 1409823, 15699359, 1757658, 6973302, 1055669, 1664484, 6965253,
          12982524, 2619879, 12319163, 16014756, 515074, 13276529, 7494694, 7232428, 11516184, 6996426, 505568, 8331981, 15422998, 14496482, 16143750, 5444191,
          12122256, 4237688, 1317658, 5914019, 1179932, 2036384, 6027270, 11606061, 492872, 5795607, 5836419, 2984795, 167172, 13929619, 16346436, 3867039,
          13740652, 6137147, 1183089, 10009103, 14989353, 2404026, 3489292, 54225, 3435819, 11056495, 11303802, 12282624, 15741428, 15114660, 2066753, 12548968 >>,
       <<
          2254257, 9549656, 14217578, 13459774, 12814011, 1058756, 4279348, 1978347, 8312021, 12766831, 7541208, 7922960, 10931916, 6368886, 13232582, 3522457,
          1574702, 8184876, 475591, 14987372, 14021811, 6539906, 7260626, 10191118, 12788937, 12870769, 35333, 11674138, 7472357, 4468285, 12105432, 13452414,
          3837993, 9917908, 15859010, 1715087, 15123443, 5325585, 513214, 374502, 426910, 10897575, 9083394, 154433, 15756308, 14784650, 6395545, 11517287,
          3633934, 16257804, 7081940, 12177785, 487223, 8852152, 3719368, 12812776, 7346534, 15756607, 8318349, 9275444, 3910508, 5799890, 3873297, 11355634,
          3670536, 12766584, 7710866, 15976010, 4861728, 15544201, 360537, 6982340, 14052226, 15372456, 9335754, 15471756, 10775911, 1677726, 3118989, 10558789,
          16652115, 12140647, 14427508, 4972605, 2028196, 12467932, 5581698, 15025261, 12104499, 16328463, 11931817, 8402024, 15710865, 16227095, 7081780, 8518081,
          13925688, 15270371, 11245861, 3185149, 5089679, 4767403, 9857966, 16331804, 14805540, 8377905, 14196836, 15785908, 8477255, 6599378, 9881818, 14315796,
          579247, 8056871, 4072500, 12477729, 13378223, 6782828, 6951035, 11152545, 2902582, 6159315, 9207315, 14809785, 11795066, 13016395, 11315994, 12385200,
          6286473, 1450685, 7364554, 11136008, 8529981, 1810786, 13060099, 2746401, 8739896, 14092048, 6597725, 6216338, 8215693, 12293770, 496185, 7873885,
          729595, 5176264, 11800793, 14232138, 16495152, 10314812, 9951971, 9700182, 6603506, 10857478, 2857985, 2828542, 8426164, 3807376, 16476511, 206386,
          12927233, 3347329, 9053278, 15436488, 14433267, 9199592, 3895269, 6785626, 8619658, 5768441, 15979751, 14218036, 9693788, 5926956, 7702952, 15263156,
          4517759, 11059789, 9193852, 10216398, 16057746, 12237304, 95783, 6437243, 13147553, 14377220, 13765469, 16016307, 14867626, 15744732, 12423585, 8598322,
          13575114, 2168445, 8701977, 13042560, 9418022, 3447470, 7148615, 15933645, 941592, 8071549, 14596348, 6119255, 9563001, 9301308, 3352749, 15787586,
          8467804, 6935701, 8135693, 13645773, 5985942, 6952889, 5806224, 26587, 9034175, 9061534, 10460417, 13194347, 10275247, 5555564, 7686427, 10063900,
          469342, 13498436, 3852133, 10659758, 2973111, 9240156, 9805626, 3033052, 14445331, 1536816, 13395582, 9244734, 13373077, 14282007, 13697546, 15618749,
          4283123, 544573, 14122134, 15830481, 11292971, 1182013, 1396437, 14563933, 280022, 7600058, 244275, 12652458, 12676642, 4717697, 4186909, 4507060,
          1836914, 13376268, 10482439, 3097244, 5778456, 4870162, 1166274, 2809685, 2678071, 4281815, 8847974, 15971199, 2821004, 11016868, 4578744, 10875038,
          11938497, 4940768, 7628627, 11788100, 5402293, 8329781, 7948558, 1915801, 396522, 5234574, 6485352, 5760330, 7061843, 13358069, 3154776, 4335582,
          1824718, 4252322, 15096449, 12249921, 8558325, 16386949, 3507964, 16199467, 10161098, 7241978, 13707650, 16367070, 349269, 3781148, 299716, 6665845,
          2457220, 592672, 12060057, 16104337, 2688172, 7477076, 11821320, 8494460, 11377901, 7158251, 9138585, 13962752, 3701049, 16390939, 16367759, 10582595,
          13385045, 11661018, 8667101, 7563924, 3744603, 8789506, 10880132, 515065, 6625289, 11322986, 9661092, 13478572, 5389610, 11070007, 10585548, 7152116,
          986250, 12372378, 5009776, 2108616, 16238722, 3558979, 14689027, 795914, 5140314, 1186600, 14403481, 1282553, 5207037, 15387665, 15758644, 4997593,
          12479599, 2654279, 6982211, 9478132, 4233866, 2187600, 142275, 9407275, 14742439, 14269469, 636133, 9908354, 13747487, 3650560, 16143056, 15113134,
          9567720, 7731821, 2877579, 13890077, 14558950, 14594272, 16337237, 13086518, 11811548, 10451581, 8537484, 627860, 6341264, 3362279, 5820534, 1661369,
          3452109, 9619765, 11310410, 15041877, 7263697, 9922201, 3256770, 8260274, 1751947, 15736255, 11172913, 6544129, 4967275, 8457518, 8385251, 288571,
          5458394, 10269809, 14623382, 6749888, 15094096, 4720298, 303549, 2633440, 3369754, 14387079, 5498576, 13608655, 16559946, 9451285, 13131533, 2267325,
          5689080, 7201459, 3574046, 4471722, 11315478, 1617409, 14054291, 6362485, 15639510, 9187648, 5768842, 15341835, 14804101, 14054152, 11527795, 8964570,
          8128539, 12884082, 16534084, 8934210, 3936613, 1095934, 12171286, 677807, 1420698, 2231655, 2846995, 2794288, 15283838, 9029644, 3573013, 4496460,
          12735856, 5573952, 10069833, 8487400, 14111856, 4283076, 6175827, 5684986, 5709038, 1911141, 4885781, 3945825, 14552889, 15837606, 10133145, 13078508,
          16010622, 11997532, 14885838, 8200582, 2270728, 9730064, 9247106, 12922703, 1749444, 5380888, 656623, 6821598, 1227981, 6379204, 14531893, 16630136,
          13222399, 2471760, 13900023, 2097441, 5719310, 1924168, 10321108, 9855069, 13118165, 15538477, 6342452, 1286001, 9576124, 9232078, 3753299, 9495342,
          1371424, 15976040, 4474880, 6121868, 14944609, 4958549, 9469846, 8963968, 15520052, 1917905, 7680093, 15045126, 4650355, 1807420, 13203915, 767586,
          13887645, 4961659, 207731, 10295790, 11247640, 244077, 1538187, 6937956, 1931099, 13859993, 14848843, 13251957, 671483, 3152809, 4020380, 13178706,
          16578548, 9844750, 7063435, 2718241, 1938744, 7564991, 2808228, 11423439, 4050360, 2666650, 12482356, 14177064, 1725270, 7299814, 15280091, 16184876,
          6346439, 13530612, 16278329, 9108777, 15254226, 13729636, 4932897, 9230976, 4251516, 11938850, 8002901, 5275759, 1679888, 3483195, 10939587, 5325362,
          664716, 457389, 176263, 13201319, 16485017, 15529052, 4958503, 12188374, 10008794, 5372924, 7547138, 6564405, 5255980, 6686646, 1056373, 1076962,
          15324175, 5324241, 16270766, 10090604, 16270485, 7648027, 1868349, 4195358, 3610343, 13172389, 10365079, 13051325, 16440881, 14952012, 9108571, 14556144,
          11545909, 7867173, 11103739, 5969786, 4346741, 3073967, 9086578, 3486924, 5155992, 3342288, 4133590, 6047575, 1365141, 13756932, 4710819, 1500131,
          16498323, 12638053, 7514552, 1518144, 10938921, 9636098, 10795569, 5685526, 15782906, 3815579, 6551142, 16216824, 5146986, 688742, 5490199, 3134199,
          5313933, 13299832, 14212562, 9714119, 14990446, 15457712, 5080297, 4124647, 5609183, 1693620, 9130587, 10257451, 9713763, 13548737, 9998592, 1544240,
          4112062, 3693595, 341819, 13560409, 4089602, 6740643, 1213454, 4497364, 9247681, 14555175, 1189779, 12233430, 1260468, 360946, 10659942, 166379,
          4879175, 12595138, 13290654, 6026231, 8275547, 7865735, 14472848, 14413559, 2586704, 1693399, 8412592, 13048411, 13337609, 5504496, 1293640, 8544133,
          15925402, 11161000, 2906520, 3012624, 13022625, 2509249, 16523810, 2374616, 13783324, 14521446, 5365085, 5127501, 1793110, 11900481, 8629499, 14003760,
          15424249, 10098083, 4923936, 2118959, 14994784, 3468530, 2377006, 9151853, 15275347, 12123695, 532843, 13081924, 5302752, 13774594, 15151307, 10461056,
          13486470, 11277616, 15219514, 9276987, 14104916, 15828877, 12518904, 16558027, 11569487, 3446613, 2988942, 5015152, 7258461, 9017624, 2649071, 814681,
          11992764, 14463620, 11203468, 4148953, 4237696, 13048924, 1080690, 11443333, 16162933, 7494298, 13560228, 7217078, 9215220, 4197991, 9082809, 7371888,
          14282320, 9027147, 7605274, 182310, 6638919, 14030634, 5681925, 2877587, 4328003, 8150088, 409506, 13305457, 10845444, 15647093, 6990795, 16379797,
          9573140, 317273, 1045583, 11604857, 5954962, 9731969, 2320022, 9958055, 2099316, 2323573, 4347194, 16495645, 13907211, 4645851, 6673931, 9463556,
          6729041, 2888604, 10275120, 1497320, 3917977, 8153671, 125446, 2979266, 8870143, 5322431, 8403701, 14982646, 10885721, 15442345, 7353738, 15604620,
          11517779, 10722500, 12271224, 3787130, 3999263, 5251014, 8305934, 11525097, 8033382, 16048073, 3775915, 11959573, 6916342, 5653108, 9402076, 10255689,
          15215919, 12217516, 15396561, 10962362, 4617515, 16313389, 10845047, 3682081, 808617, 15461941, 1200433, 12804275, 8584762, 10826143, 14720733, 6185593,
          2675424, 8583757, 12851814, 13295609, 14814442, 3419938, 5231170, 5011655, 11619177, 5025886, 14243707, 9266355, 6234653, 2771238, 11765570, 11765458,
          12355045, 7797686, 9975360, 1425613, 14365946, 2067689, 15042525, 10168757, 16107449, 8622671, 9583694, 6328327, 2957418, 2613541, 4204293, 7159725,
          3651035, 15798991, 9554915, 12072845, 12712937, 13124289, 874650, 8305155, 11435962, 6603633, 12031835, 10686632, 5838160, 6442059, 8641202, 14184548,
          2764854, 9130544, 12245625, 16681771, 682978, 8794179, 16462157, 1516690, 13555046, 4281275, 10543616, 1695277, 4488345, 12363256, 15315297, 1404587,
          16096712, 16354780, 2334149, 16260956, 13015046, 10349908, 14125255, 16220231, 11068220, 11519726, 11750892, 1375870, 7466846, 14276914, 15507311, 4043146,
          16294158, 14277424, 6414824, 15770534, 13467264, 15156971, 7263219, 6664580, 2764117, 15268678, 5460434, 7350584, 2119466, 10442181, 15248555, 8186719,
          16096465, 3557023, 1999621, 7235350, 10077722, 8959948, 6848863, 15255456, 1981221, 11081514, 4957256, 4658570, 4164379, 6356039, 12575812, 9384740,
          67259, 16102841, 3184964, 8864462, 7361390, 9715394, 352903, 516879, 10528149, 16325765, 10160744, 4064099, 14014551, 4368733, 3466270, 2899979,
          4777842, 2489914, 9098945, 3362946, 4583966, 5219990, 9827054, 12707393, 4209105, 13964598, 11467682, 7489290, 13272299, 14449227, 13566973, 14346016,
          16334567, 2818229, 9149907, 5988718, 8234413, 7045869, 14356225, 2043465, 12902809, 3505519, 9572150, 14745996, 6429975, 3436338, 4765525, 13598967,
          1814274, 15166901, 13548425, 405180, 1980911, 9551412, 12537030, 221727, 9148399, 4972978, 16189096, 11306399, 12768562, 12152002, 16332951, 10894860,
          2291667, 1261371, 8394840, 6270103, 9606269, 13513693, 5221932, 7334481, 8439484, 11362586, 5986425, 12727367, 8864979, 5430580, 14172, 2078710,
          7420803, 12045498, 7542233, 5875595, 5113681, 9047874, 6700866, 5693602, 13138024, 12266386, 11465765, 9586753, 8259408, 1897425, 10866069, 15398336 >>,
       <<
          16039593, 14480571, 15901906, 14244783, 948774, 1536537, 1423915, 6057539, 14017345, 2836752, 12347527, 13572130, 11236211, 14324963, 5169671, 4220867,
          10166056, 3560440, 10180443, 599524, 9750985, 11429414, 2657223, 16772498, 7225437, 10711771, 6602368, 13483335, 12130129, 14432501, 16690302, 8540734,
          15928212, 6242135, 9129775, 15698637, 7463414, 8423291, 4500332, 15119757, 602710, 14613508, 460448, 6107148, 7799624, 15633790, 5342958, 15229519,
          6375592, 7107012, 14961744, 14832142, 8820667, 2759657, 9403803, 2976889, 3961493, 3868870, 400272, 2964869, 5454993, 2912336, 2293401, 8559176,
          8560135, 6034620, 16755129, 8619083, 11315891, 9393400, 3050827, 16696310, 14991642, 7476558, 13367413, 6957024, 12321215, 8814174, 15210117, 15241732,
          12799094, 6111193, 13249766, 9957035, 5935560, 6071445, 16458055, 14411071, 16138019, 7478762, 2704229, 16021119, 12650089, 6708596, 11998241, 12391487,
          7741119, 10987582, 8897892, 4192655, 8221069, 4682558, 15516107, 8356151, 8402718, 8646846, 13950665, 13358291, 5937862, 11101242, 14811780, 7628411,
          15094471, 15152789, 7734500, 5885024, 9524510, 12178332, 15440582, 9354687, 12142895, 7659656, 8163936, 11054261, 3721371, 15780590, 5447012, 13668123,
          11736864, 14009418, 2786186, 14708521, 15232713, 10340571, 4498600, 12968520, 15290382, 8049140, 5193607, 5088474, 16061864, 13409338, 11848167, 13943004,
          8459891, 9431961, 8686365, 8512032, 10928920, 10331547, 9864075, 6822799, 5231879, 12262968, 3486615, 8202489, 8588116, 6150497, 15672509, 11479505,
          10456652, 14798671, 1264588, 13158032, 13764027, 5728730, 12179408, 141294, 15227900, 13674429, 3211204, 16728035, 12495380, 1781017, 985810, 9637083,
          10954010, 820575, 4581853, 9927084, 3801994, 11450075, 14688304, 15365261, 1782847, 12656224, 8763791, 2290088, 14326786, 4460075, 4107598, 13836967,
          3531250, 15830661, 14773710, 1013089, 7095380, 15065400, 12028611, 12740770, 534741, 952885, 6079340, 6043463, 2883684, 4185943, 11287131, 393303,
          1390884, 1933122, 16014895, 1131901, 425213, 685761, 12237695, 15412054, 354752, 6259533, 4289767, 2143912, 13645822, 15702891, 2636007, 12327680,
          3082625, 8776017, 11601368, 32484, 6468722, 9889468, 724121, 13323758, 16609469, 4157847, 2540407, 16287610, 608492, 70399, 5774734, 15744813,
          10322005, 10532002, 12456405, 12543962, 1897753, 4798730, 5657508, 8200049, 516920, 5173852, 7527152, 9252690, 12850843, 10152831, 12414245, 767934,
          15133387, 4428214, 12677907, 6741991, 14469439, 10428635, 11833727, 2574557, 7931923, 16085727, 3783724, 1567892, 11086862, 11532582, 5306732, 14066041,
          1712099, 406072, 7513204, 13227313, 14676088, 15906381, 2139706, 8695397, 9813928, 13104006, 6592649, 8169191, 8636956, 5502269, 2413057, 14670723,
          16101617, 5721886, 4346916, 4392902, 10168300, 16285368, 7042329, 10960800, 302547, 11735223, 9360849, 16089349, 2358362, 11250151, 952627, 4244080,
          562980, 2209591, 2703900, 2864051, 1608464, 7606620, 10654802, 3886527, 8527174, 15374606, 16499823, 11879837, 15672106, 526826, 16685364, 4139955,
          3900263, 11976708, 7460785, 1233925, 4207403, 1349378, 9919316, 3828614, 10471735, 13280568, 13425253, 10467464, 11903406, 6036929, 4305189, 11485021,
          7097046, 4676433, 8828002, 12594283, 80946, 2535296, 595581, 6455080, 6857291, 2688309, 1865206, 8591307, 12142840, 1473397, 4041052, 1709786,
          1673914, 332218, 3049428, 12592729, 3884352, 1765370, 3646588, 410036, 8736506, 11232173, 7791391, 7614469, 5196341, 8984758, 10766925, 6375387,
          3564315, 11487135, 15209597, 12759490, 16158416, 3525572, 12229433, 13523774, 7276846, 7140365, 8581568, 357734, 9748842, 9921087, 859576, 14788059,
          7013151, 15584031, 8809121, 9753283, 3040451, 15445379, 1573481, 11128195, 13466319, 8049754, 6143547, 326868, 8710893, 16117367, 15459371, 1989626,
          10242663, 6148561, 4858359, 11582900, 16500745, 15643870, 6244927, 5171988, 319691, 14669108, 11497605, 6916479, 1697214, 1761884, 5132525, 3328454,
          14103123, 13008007, 11283881, 13847812, 263772, 13624112, 7573628, 1006478, 6889972, 10692032, 8151427, 7773552, 3493803, 14924036, 9877503, 10293772,
          1237979, 89393, 4770758, 405035, 6256259, 5130831, 15691234, 12139406, 1284266, 3676983, 12666531, 8228308, 3227250, 1942270, 9589063, 6264520,
          6572993, 12011222, 7771615, 2343195, 12642982, 5787117, 6627714, 14892995, 2042281, 4264135, 2042963, 2062901, 1350745, 10343849, 14261822, 5611696,
          10754054, 6561642, 16100566, 3556935, 11620781, 1768336, 413873, 10371372, 11058864, 7891574, 13039452, 724447, 12138622, 11841418, 8354206, 4878023,
          5999274, 16099409, 7667786, 2373413, 13400332, 6289988, 4512106, 8123554, 8829911, 14525603, 8012119, 12071992, 16017155, 12212362, 13494753, 7029082,
          15637268, 8256429, 14025846, 11412257, 4978868, 6621494, 3886062, 2623948, 8200526, 10008543, 4352099, 9203328, 7174840, 11670542, 11394082, 11730698,
          15411218, 1414502, 9829780, 12210472, 13721300, 9659499, 1609728, 1193864, 5973649, 2955044, 16739434, 9148014, 2457879, 13527543, 6992207, 15069375,
          1121378, 13397790, 1445346, 15290185, 15024002, 11431235, 16586576, 13586366, 10873013, 630350, 2156123, 16339576, 4972473, 6553080, 3887274, 11885032,
          11253021, 14850463, 11426945, 5526660, 7362611, 2894582, 8791173, 4814865, 1880227, 2617550, 9074682, 16553849, 15937327, 16254753, 12679839, 7108672,
          1613204, 5517080, 8665454, 4170832, 12001830, 8626273, 4316115, 2844843, 15013874, 2642598, 7733306, 15894497, 11798261, 3933368, 6780736, 14671141,
          16695561, 6015524, 13133468, 12823458, 9620733, 12229323, 2428754, 7829242, 7401826, 12060611, 492996, 13585045, 9985197, 6429890, 14794442, 12360668,
          3027020, 6591038, 8559257, 898794, 8094307, 4596120, 6793341, 4256740, 11919542, 12268296, 15714713, 6914654, 11834522, 10870436, 7927220, 6041588,
          16139302, 9186833, 5548686, 11966509, 12509306, 15300293, 11047545, 1365891, 12777676, 13751948, 14295416, 12176722, 3774854, 8939815, 10422829, 3152031,
          6756585, 13695078, 11189931, 6418218, 16395266, 14779667, 10650694, 15350647, 194712, 5250160, 7793835, 8784102, 11938272, 15212123, 14817988, 7823343,
          10906617, 2975754, 13691381, 1584270, 287517, 6759904, 15824766, 3632723, 12238368, 9550724, 10174441, 6472409, 15188800, 3615476, 14842462, 16317333,
          1685395, 6542848, 13683853, 9357044, 12868137, 13448480, 3347692, 4603831, 12486370, 15458311, 9835264, 9734521, 3212743, 8217541, 13492059, 10266412,
          2313127, 142342, 10273087, 11386627, 7287988, 8087561, 4256230, 8614114, 9497491, 2911968, 7836417, 11957352, 3439287, 16313927, 16219890, 12753359,
          1221806, 5876012, 50957, 15194743, 8144048, 8945044, 14045742, 11225434, 11046153, 1097979, 12661254, 9924755, 8136957, 15517829, 11321304, 15472780,
          5618532, 7705870, 4478598, 14722374, 8437273, 7722899, 461840, 16560570, 1338965, 10292550, 12649345, 5832368, 2914196, 12744378, 12587202, 15745715,
          13159645, 16739119, 6786232, 4283103, 11324506, 10487975, 13210753, 13982753, 14495918, 12072273, 2262747, 907302, 2727474, 8379927, 6403249, 16647959,
          7795645, 11335987, 4946239, 2614697, 174487, 4742161, 9351983, 7841536, 16222121, 30533, 6148173, 570714, 9026132, 14261202, 6414418, 9467488,
          7428959, 3429516, 14604460, 11348404, 5174604, 8359716, 10889507, 2237817, 8116591, 11570032, 9035691, 11930402, 15346171, 5078601, 1287047, 4328231,
          13830640, 5252590, 5103114, 5598675, 10843253, 15911540, 13351996, 5237390, 10962391, 10783897, 6592884, 8692019, 14104685, 15443369, 1559422, 8530534,
          10625252, 3533491, 6562002, 10002446, 8899742, 14229662, 14276422, 2508836, 13385951, 8466963, 10550187, 1495474, 5168712, 687381, 3907645, 15931332,
          7676217, 9417100, 3894152, 8768316, 4655451, 1027936, 16068456, 1877586, 1878478, 11330955, 13734103, 13210187, 6362156, 14371315, 6117029, 3585569,
          5341723, 5974071, 1298314, 5615560, 7673566, 6085101, 2793359, 8348068, 7415679, 14586206, 4898731, 7735329, 15008447, 2245786, 15464272, 12054190,
          7415470, 16621636, 10731046, 3622269, 15596808, 4580754, 5473174, 2667322, 1670245, 14893425, 3990324, 7866671, 3180057, 12621957, 11382848, 14197175,
          6271127, 3109395, 5974331, 2352912, 13339524, 2271316, 3911978, 4506957, 13564989, 9237531, 10618411, 6341894, 6715250, 13564264, 13816358, 12573131,
          5742056, 4710108, 14740148, 12080756, 15534459, 9984079, 8432334, 9745172, 11575998, 12282859, 15917922, 5376875, 12458087, 6701234, 12599807, 11975925,
          14584604, 11819683, 15696274, 10605620, 12642207, 16265922, 16426055, 12018606, 4892336, 8924462, 10443585, 10686974, 11251773, 1219184, 6164524, 5177207,
          6629983, 8120170, 2932224, 4327212, 16067746, 15121877, 5939193, 7394301, 7996591, 1471319, 14991534, 15494015, 3128113, 5282797, 16117359, 6358801,
          2131641, 16240176, 470257, 1749349, 5885111, 2803231, 6025953, 1292466, 15395516, 14737167, 14817540, 12286477, 12776872, 10934650, 7322045, 140693,
          9104767, 5375293, 3972337, 13842391, 13984307, 9976488, 6541622, 9078952, 4775690, 7866794, 10700609, 15111240, 2526289, 6036803, 5307481, 3391167,
          15538680, 8362626, 1594597, 16285913, 2385719, 13151318, 3428350, 5558820, 4210746, 2371752, 7053100, 6046710, 4197260, 1495545, 5749382, 3145986,
          4135271, 11867149, 4028015, 12214426, 10244247, 786052, 5644829, 15772195, 6254362, 10871205, 12881824, 10258449, 1034958, 14466941, 2416630, 2977506,
          14274451, 1057996, 7210467, 7442404, 13066154, 4561926, 2227904, 5385119, 8774317, 9676951, 14183022, 1953116, 5671399, 10874962, 12887898, 11921742,
          10240411, 16062265, 6619846, 3821100, 16732777, 908332, 6581748, 12860995, 7948933, 8218169, 10393245, 14619179, 5315672, 9137395, 14053250, 10427552,
          10024991, 1519134, 9865012, 8563553, 9035980, 11151439, 16524443, 8316635, 16591493, 6732614, 14106138, 11602266, 7626523, 2842109, 6908686, 6475938 >>,
       <<
          3992383, 9942864, 9130651, 2188131, 6206817, 15367003, 10132096, 7953298, 10497844, 9745080, 1099391, 10160274, 220922, 15247442, 14050399, 7872412,
          4351238, 9240632, 3931421, 3216932, 16704148, 12031747, 7889712, 9076035, 14033494, 9221280, 7991880, 6662812, 10721784, 14445553, 2526924, 3891005,
          10651194, 2543801, 14563383, 15532941, 8777524, 6542052, 12436142, 254120, 11264415, 13039834, 1074269, 2674287, 12720992, 16064135, 9917005, 717880,
          5054432, 13087511, 520290, 13817220, 14521137, 4520313, 7931413, 9978241, 12059864, 15437666, 14744032, 6502992, 11981104, 13222272, 15453471, 7162778,
          6626386, 12215926, 13437019, 9678938, 7459503, 16174809, 15696540, 2250648, 14744935, 6132402, 1635012, 602077, 2281178, 8302765, 3640436, 4328206,
          16198068, 11274980, 7317581, 13068991, 10513413, 14348304, 5050381, 7065699, 8510125, 13983425, 6473761, 9630503, 5887301, 8960762, 9815914, 6837988,
          9802118, 3898798, 15169988, 5649979, 11441761, 15363413, 15585121, 480841, 14368017, 4692347, 16626047, 10163960, 11262101, 11669651, 2736357, 11720829,
          14439101, 5475920, 16183855, 9089324, 15178279, 9595822, 9548039, 1746102, 11975862, 10997652, 3542089, 10619573, 13952065, 16577097, 9622276, 4480941,
          4780792, 2087670, 1064691, 8086641, 14326777, 10716588, 16606189, 8111930, 1485087, 5772707, 13431760, 1117564, 6886406, 15050776, 2529423, 337647,
          4930676, 7166249, 12898187, 6965854, 14642600, 1995100, 741386, 10150021, 10310144, 12778107, 753972, 6338512, 12053431, 9837741, 5552489, 9241753,
          14779138, 15466619, 16452337, 4682076, 8479546, 3958610, 16752200, 604195, 5195401, 121345, 1291354, 1813940, 10062350, 8985510, 526431, 15919824,
          3311568, 16297868, 6844032, 4892444, 10241938, 4418669, 2620584, 11571800, 711954, 16439763, 14558916, 5701129, 5265202, 6043095, 16083636, 2320725,
          15043452, 14457050, 6338251, 6320836, 7724391, 14594357, 8725376, 6479242, 10802660, 14543036, 9993352, 11424794, 9382843, 1720886, 10403990, 16322273,
          15781005, 13614912, 8506498, 4551669, 7234193, 10641627, 12084817, 12006134, 3986864, 15710787, 5051399, 7339121, 16404716, 4332428, 8743065, 5083381,
          9201136, 5685933, 192224, 13227097, 6966073, 16566761, 9730201, 5282749, 336431, 6316899, 10331375, 9885188, 10606229, 2235873, 1007983, 10628917,
          10525037, 5577599, 7822384, 5920945, 11396450, 15390387, 5915260, 10215041, 11860657, 4679575, 12382160, 8212495, 372160, 9888104, 1016310, 16019574,
          11341738, 356558, 16161585, 6193558, 4213132, 10535577, 7655647, 5010285, 9943384, 10090734, 5369135, 2976630, 6106153, 3107912, 5245743, 12718927,
          6193375, 14157301, 9992870, 4431487, 5039942, 13208734, 6327700, 1759455, 12956597, 13640830, 451662, 16296959, 9550564, 11471133, 12334159, 2204874,
          5201217, 8388787, 3733565, 10967656, 13485654, 4519415, 4004640, 5499343, 3143955, 11376019, 7302020, 10897455, 11711610, 1627765, 1708620, 10078478,
          5401692, 15924078, 5599457, 11323402, 13984462, 3765820, 7355647, 13585602, 14353498, 16117716, 2840118, 1341310, 5649060, 12449866, 10909089, 3657764,
          14846129, 9536195, 7568238, 4539912, 3775340, 13203785, 2028689, 568897, 8885677, 16065543, 3201156, 5287186, 13535475, 14029192, 14067299, 9644135,
          3080067, 14490944, 4674000, 5706093, 13543011, 13890636, 10769920, 1435022, 13526761, 10390667, 5792884, 9889845, 2175822, 7067777, 4897988, 8697268,
          13318792, 14260166, 4549553, 7796721, 5810860, 10639764, 6994516, 4872082, 7042591, 9535033, 6870641, 596333, 15445312, 6933446, 2617209, 3348246,
          78211, 8008646, 15825408, 13967696, 14763585, 10446509, 16557663, 8558741, 7287222, 9376307, 15941059, 16538296, 15558807, 12033604, 3726064, 542208,
          12507800, 7661672, 14037474, 12639626, 11123079, 12549599, 8707626, 16162600, 4849317, 9124474, 5722183, 14926758, 3816251, 14454093, 1141985, 14394534,
          9876373, 16290075, 4815248, 2013204, 13592764, 4102598, 756263, 589626, 15160048, 13471327, 11638448, 8594930, 15499711, 3329747, 15041900, 14823679,
          15094039, 7212302, 9679671, 828070, 220528, 8070643, 12504030, 2026921, 2882687, 8442079, 5031286, 4010529, 11121551, 332944, 8807436, 9009303,
          6941580, 893330, 15754518, 15319020, 10270406, 1905678, 5726947, 2103957, 4235824, 16307292, 14456335, 9076150, 8006045, 13615573, 13125237, 1029586,
          5902923, 3704462, 3310709, 2050528, 8969721, 14892087, 13703812, 2000020, 2873975, 4017415, 13282050, 4592911, 15464675, 14925569, 13523292, 2155625,
          13816016, 15447673, 125908, 8178915, 10546278, 9578033, 14471264, 6715543, 837717, 12691778, 4553286, 4165088, 4506127, 10369814, 8846058, 8718649,
          7096494, 855182, 7933945, 5420989, 13027468, 13749365, 30344, 14378450, 919954, 13006461, 2128412, 774853, 2090881, 836064, 1147841, 8100257,
          16352627, 553834, 14335274, 11957444, 1444988, 8647053, 8424175, 8220693, 5299859, 2634721, 5277773, 1204187, 5893660, 6472601, 10853409, 6537007,
          9841735, 5102257, 6053799, 4444795, 3205823, 16576271, 5515951, 7192386, 2076264, 2140942, 9320178, 58534, 12013205, 12130589, 6379336, 13342797,
          1340520, 9508221, 2995675, 720775, 6262508, 7731240, 10140734, 10909740, 13130215, 9081904, 6379782, 10681657, 13441249, 728791, 10450972, 14873622,
          7240939, 890279, 6248173, 10526768, 8324042, 12751415, 11792380, 5283960, 7055052, 15943204, 11645455, 7017790, 7731610, 300734, 4111815, 3668321,
          8989859, 4531371, 11663002, 9896914, 1200929, 13474408, 7128446, 3765494, 7144662, 2187176, 14758401, 471346, 15711595, 5462072, 6278633, 16253958,
          15063493, 9379725, 13269383, 14602069, 4398645, 2037609, 7787030, 11585596, 2066047, 15754845, 13643596, 12272994, 11111375, 14257140, 14887153, 8894937,
          13295430, 6315439, 11199824, 1822499, 12310033, 5341697, 9459731, 8924997, 1730288, 13616737, 9860955, 12022251, 82229, 7944810, 2407838, 3958924,
          12990665, 6520859, 743446, 8845055, 1540129, 9467746, 1665970, 11059657, 14771800, 6304218, 3005698, 13748030, 394052, 5729149, 14118624, 14299231,
          2034799, 427272, 14159018, 1931001, 11300038, 8085294, 14028805, 11682801, 15978810, 4773031, 9715290, 5022798, 13400755, 1489568, 608497, 16714224,
          12875146, 9456265, 8578622, 8875262, 11998359, 3998098, 1790862, 9302335, 12565546, 1676269, 15679354, 9283162, 1025750, 9229448, 5439959, 14586491,
          9461969, 3026982, 13892530, 1297512, 4062201, 16749528, 3016081, 10837626, 4193734, 7619223, 10334445, 11745953, 12642358, 15814600, 6605692, 4242891,
          6165146, 10057161, 6654509, 15749859, 5876798, 9338847, 7016527, 16212064, 1396879, 6296901, 8393802, 3947076, 16325178, 15594245, 6926161, 14153305,
          12539442, 16225098, 2694764, 6967091, 11590340, 9536251, 12685521, 9727849, 11305424, 15501008, 8675365, 11501777, 8115489, 2620175, 10786961, 6728534,
          15055895, 14890704, 2505298, 2727696, 1608276, 8354354, 12551954, 8111804, 15378237, 11721216, 8678080, 15949965, 7433204, 9839303, 12061319, 14396616,
          3122425, 2286479, 4485512, 12617344, 3341683, 2458788, 9825028, 8650639, 5282264, 15683160, 3897434, 14285647, 11595277, 9026720, 15995826, 13078430,
          4963768, 11263971, 11833528, 14349454, 6932357, 9986218, 14321693, 9807523, 9808770, 16504655, 4482427, 14921809, 3650804, 5154419, 387969, 4497864,
          8044500, 13490505, 6421481, 3365915, 2889837, 9561149, 6047689, 4006824, 5402970, 8096611, 12988996, 14492197, 2409378, 7019871, 16629877, 11702977,
          8046182, 11769027, 10049563, 3452030, 7852625, 9739459, 14002461, 15128934, 13784414, 10945398, 9346943, 465906, 8074862, 16656243, 12091490, 1214243,
          14372184, 15897339, 6715287, 13138491, 12307571, 14795004, 16110470, 769174, 7841590, 15282245, 3852074, 14948308, 3938933, 10875827, 12040812, 13041478,
          11330506, 1162062, 16084563, 3646894, 14325754, 4264305, 4061626, 14934613, 3181348, 13015778, 4338974, 2306527, 3140455, 10433886, 11823479, 11327020,
          14404843, 616722, 15095467, 15666170, 4278323, 2847252, 14513951, 755347, 5258260, 3074711, 7101716, 1526023, 12230060, 13403276, 1441589, 1979166,
          1554280, 4432134, 13991009, 15330199, 4894977, 606085, 5983780, 7589290, 9735819, 12316052, 11333132, 5647916, 115489, 492984, 5617044, 5561137,
          7318579, 6369900, 8152058, 1308057, 3524830, 10809618, 9816439, 12454889, 16027900, 8220550, 6558549, 2104289, 9132787, 5348804, 1999453, 14820167,
          4609728, 1279161, 11164114, 7257173, 1887923, 7355454, 14884561, 8849709, 15246496, 4209879, 1625807, 8853144, 15792184, 11755835, 6278426, 11382138,
          12959044, 6181279, 12705777, 7556655, 4958238, 11121645, 11339505, 11240175, 10973614, 15841378, 13523358, 13712862, 4455890, 1797945, 12653203, 15845227,
          16128380, 5679597, 11288131, 9496698, 8995394, 8819455, 1900792, 11188429, 8285943, 8534283, 5908227, 998632, 12047606, 4939609, 11384076, 12212034,
          9502471, 12453112, 3053114, 10835302, 10832508, 12250714, 10584484, 2508897, 3004873, 6220645, 14930367, 15434746, 10995306, 7620845, 2065792, 1815560,
          15633749, 9391572, 2372034, 15448636, 5562148, 10820930, 12087604, 10898292, 10023259, 7048737, 9310076, 5042665, 10863026, 3135710, 7678996, 8092867,
          5241919, 13123330, 2959185, 11835774, 1150854, 1802224, 12009725, 3040650, 12658081, 9290050, 9112295, 9661292, 12409078, 6574223, 6026750, 1675282,
          4460156, 4543994, 6432043, 897125, 14638795, 2290489, 706502, 8031236, 8467658, 4551122, 4147265, 11667648, 12900024, 8635588, 5940969, 14684229,
          5584508, 15855196, 6766903, 7520086, 9084830, 13575381, 12947151, 1161457, 5920420, 8355149, 14208350, 16703968, 1881244, 2543133, 4538027, 9900550,
          1671827, 11433367, 1890536, 9468364, 13069167, 15266366, 12201890, 1880605, 3101200, 11713407, 3173737, 9514221, 6990316, 11243237, 12470797, 6562991,
          13685983, 16498881, 12561108, 2155472, 9930707, 10198769, 2457378, 14420393, 6684368, 13391500, 3248714, 9138883, 8851679, 2857685, 9535636, 3001257 >> >>

(***************************************************************************)
(* The generators (random.Random, the Mersenne Twister), as far as         *)
(* get_pool_core and generate_itempool draw from them.  MT_STREAM[s + 1]   *)
(* holds the first outputs (genrand_uint32) of a generator seeded with s,  *)
(* each cut to its 24 leading bits, which decide every draw made here      *)
(* (getrandbits(k) for lists of fewer than 2^24 entries; floor(random() *  *)
(* n) for the populations drawn from, compared on every entry of the       *)
(* table).  The state of a generator is its seed and the number of outputs *)
(* it has produced: state = seed + SeededStates * outputs.                 *)
(***************************************************************************)
SeededStates == Len(MT_STREAM)

GeneratorSeed(state) == state % SeededStates

Outputs(state) == state \div SeededStates

\* the state after n more outputs
Advanced(state, n) == state + SeededStates * n

\* the 24 leading bits of the next output
genrand_top24(state) == MT_STREAM[GeneratorSeed(state) + 1][Outputs(state) + 1]

RECURSIVE bit_length(_)
bit_length(n) == IF n = 0 THEN 0 ELSE 1 + bit_length(n \div 2)

\* _randbelow(n): k = n.bit_length(); outputs are drawn until getrandbits(k) is
\* below n.  The number, and the state after; `unit` is 2^(24 - k)
RECURSIVE BelowFrom(_, _, _)
BelowFrom(n, unit, state) ==
    IF genrand_top24(state) \div unit < n
    THEN <<genrand_top24(state) \div unit, Advanced(state, 1)>>
    ELSE BelowFrom(n, unit, Advanced(state, 1))

\* 2^(24 - n.bit_length()), for the n up to the length of the table of outputs
BIT_UNITS == <<>> \o [n \in 1..Len(MT_STREAM[1]) |-> Pow2(24 - bit_length(n))]

randbelow(n, state) ==
    BelowFrom(n, IF n <= Len(BIT_UNITS) THEN BIT_UNITS[n] ELSE Pow2(24 - bit_length(n)), state)

\* random.choices(population, k=k): population[floor(random() * n)], k times;
\* random() takes two outputs, the first of which holds the leading bits
random_choices(population, k, state) ==
    <<>> \o [i \in 1..k |->
        population[((genrand_top24(Advanced(state, 2 * (i - 1))) * Len(population))
                        \div Pow2(24)) + 1]]

\* the state after random.choices(population, k=k)
ChoicesState(k, state) == Advanced(state, 2 * k)

\* x[i], x[j] = x[j], x[i] (positions from 0)
Exchanged(list, i, j) == [list EXCEPT ![i + 1] = list[j + 1], ![j + 1] = list[i + 1]]

\* random.shuffle(x): for i in reversed(range(1, len(x))): j = randbelow(i + 1),
\* then the exchange.  The passages for i = hi down to lo, from the list and
\* the state `at` holds; the list and the state after
RECURSIVE ShufflePassages(_, _, _)
ShufflePassages(at, hi, lo) ==
    IF hi < lo THEN at
    ELSE IF hi = lo
    THEN LET below == randbelow(hi + 1, at.state)
         IN  [list |-> Exchanged(at.list, hi, below[1]), state |-> below[2]]
    ELSE LET upper == ShufflePassages(at, hi, ((hi + lo) \div 2) + 1)
         IN  \* the later passages start from the state the earlier ones leave
             IF upper.state >= at.state
             THEN ShufflePassages(upper, (hi + lo) \div 2, lo)
             ELSE at

Shuffled(list, state) == ShufflePassages([list |-> list, state |-> state], Len(list) - 1, 1)

random_shuffle(list, state) == Shuffled(list, state).list

\* the state after random.shuffle(list)
ShuffleState(list, state) == Shuffled(list, state).state

\* the names n calls of get_filler_item_name return, and what they leave of a pool
FillerNames(useful, filler, n, state) ==
    <<>> \o [i \in 1..n |->
        IF i <= Len(useful) THEN useful[Len(useful) - i + 1]
        ELSE IF i <= Len(useful) + Len(filler) THEN filler[Len(filler) - (i - Len(useful)) + 1]
        ELSE random_choices(filler_consumables, 1,
                            ChoicesState(i - Len(useful) - Len(filler) - 1, state))[1]]

PoppedFrom(list, n) ==
    IF n <= 0 THEN list
    ELSE IF n >= Len(list) THEN <<>>
    ELSE SubSeq(list, 1, Len(list) - n)

FillerDraws(useful, filler, n) ==
    IF n > Len(useful) + Len(filler) THEN n - Len(useful) - Len(filler) ELSE 0

(***************************************************************************)
(* get_pool_core: the decisions.                                           *)
(***************************************************************************)
\* classification & IC.progression, classification & IC.useful (single bits)
HasFlag(classification, flag) == (classification \div flag) % 2 = 1

\* data.classification if adjusted_classification is None else adjusted_classification
Classification(row, options) ==
    IF determine_item_classification(row.name, options) = NoCode THEN row.classification
    ELSE determine_item_classification(row.name, options)

\* the pool an item of type "Item" goes to
PoolName(classification) ==
    IF HasFlag(classification, IC_progression) THEN "progression"
    ELSE IF HasFlag(classification, IC_useful) THEN "useful"
    ELSE "filler"

\* [item] * data.quantity
Copies(item, quantity) == <<>> \o [i \in 1..quantity |-> item]

\* what the entries lo..hi of ITEM_TABLE add to the pool `which`, in the
\* order of the table (the loop's extends, joined by halves)
RECURSIVE SplitPool(_, _, _, _)
SplitPool(which, options, lo, hi) ==
    IF lo > hi THEN <<>>
    ELSE IF lo = hi
    THEN IF ITEM_ROWS[lo].type = "Item" /\ PoolName(Classification(ITEM_ROWS[lo], options)) = which
         THEN Copies(ITEM_ROWS[lo].name, ITEM_ROWS[lo].quantity)
         ELSE <<>>
    ELSE SplitPool(which, options, lo, (lo + hi) \div 2) \o
         SplitPool(which, options, ((lo + hi) \div 2) + 1, hi)

\* variant: the error is raised when the progression items fill every location
InsufficientLocations_OrEqual(progression, left) == Len(progression) >= left

\* if len(progression_pool) > num_items_left_to_place
InsufficientLocations(progression, left) == Len(progression) > left

\* list.count(item), item in list, list.remove(item)
Count(list, item) == Cardinality({k \in 1..Len(list) : list[k] = item})

Contains(list, item) == \E k \in 1..Len(list) : list[k] = item

RemoveFirst(list, item) ==
    LET at == CHOOSE i \in 1..Len(list) : list[i] = item /\ \A j \in 1..(i - 1) : list[j] # item
    IN  SubSeq(list, 1, at - 1) \o SubSeq(list, at + 1, Len(list))

\* What list.remove(name), called for every entry of names in turn, leaves
\* of list[lo..hi]: the calls remove the first occurrences of a name, as
\* many as there are calls for it, so that an entry stays when more entries
\* of its name come before it than there are calls.
RECURSIVE RemoveEach(_, _, _, _)
RemoveEach(list, names, lo, hi) ==
    IF lo > hi THEN <<>>
    ELSE IF lo = hi
    THEN IF Count(SubSeq(list, 1, lo), list[lo]) > Count(names, list[lo])
         THEN <<list[lo]>>
         ELSE <<>>
    ELSE RemoveEach(list, names, lo, (lo + hi) \div 2) \o
         RemoveEach(list, names, ((lo + hi) \div 2) + 1, hi)

NotSword(item) == item # "Progressive Sword"

\* variant: start_with_sword leaves the pool as it is
SwordPool_NotRemoved(mode, pool) ==
    IF mode = "swordless" THEN SelectSeq(pool, NotSword) ELSE pool

\* variant: swordless removes one sword (an if for the while)
SwordPool_RemoveOne(mode, pool) ==
    IF mode \in {"start_with_sword", "swordless"} THEN RemoveFirst(pool, "Progressive Sword") ELSE pool

\* the pool after the sword_mode branch
SwordPool(mode, pool) ==
    IF mode = "start_with_sword" THEN RemoveFirst(pool, "Progressive Sword")
    ELSE IF mode = "swordless" THEN SelectSeq(pool, NotSword)
    ELSE pool

\* variant: the removed swords are not added to the count
SwordsRemoved_NotCounted(mode, pool) == 0

\* what the branch adds to num_items_left_to_place
SwordsRemoved(mode, pool) ==
    IF mode = "start_with_sword" THEN 1
    ELSE IF mode = "swordless" THEN Count(pool, "Progressive Sword")
    ELSE 0

SwordPrecollected(mode) ==
    IF mode = "start_with_sword" THEN <<"Progressive Sword">> ELSE <<>>

\* variant: the option compared is the one of the triforce charts
RemovesTreasureCharts_WrongOption(options) ==
    /\ ~options.progression_treasure_charts
    /\ options.better_filler \in {"remove_triforce_charts", "remove_both_charts"}

\* the condition of line 174
RemovesTreasureCharts(options) ==
    /\ ~options.progression_treasure_charts
    /\ options.better_filler \in {"remove_treasure_charts", "remove_both_charts"}

\* the condition of line 219
RemovesTriforceCharts(options) ==
    /\ ~options.progression_triforce_charts
    /\ options.better_filler \in {"remove_triforce_charts", "remove_both_charts"}

\* the chart names removed, in the order of the remove calls
ChartsRemoved(options) ==
    (IF RemovesTreasureCharts(options) THEN TREASURE_CHARTS ELSE <<>>) \o
    (IF RemovesTriforceCharts(options) THEN TRIFORCE_CHARTS ELSE <<>>)

\* variant: the 8 triforce charts are not counted
better_filler_count_TreasureOnly(options) ==
    IF RemovesTreasureCharts(options) THEN Len(TREASURE_CHARTS) ELSE 0

\* the first of the remove calls that raises ValueError (0: none does): the
\* call for names[k] finds no entry when the list holds fewer entries of the
\* name than there were calls for it
FirstAbsent(list, names) ==
    IF \A k \in 1..Len(names) : Count(list, names[k]) >= Count(SubSeq(names, 1, k), names[k])
    THEN 0
    ELSE CHOOSE k \in 1..Len(names) :
            /\ Count(list, names[k]) < Count(SubSeq(names, 1, k), names[k])
            /\ \A j \in 1..(k - 1) :
                  Count(list, names[j]) >= Count(SubSeq(names, 1, j), names[j])

\* better_filler_count when random.choices is called
better_filler_count(options) == Len(ChartsRemoved(options))

\* the filler pool after the better_filler block; `state` is the state of
\* the generator that random.choices uses
BetterFillerPool(options, filler, state) ==
    IF options.better_filler = "standard_filler" THEN filler
    ELSE RemoveEach(filler, ChartsRemoved(options), 1, Len(filler)) \o
         random_choices(better_filler_items, better_filler_count(options), state)

(***************************************************************************)
(* item_factory (Items.py) and handle_dungeon_items: the decisions.        *)
(***************************************************************************)
\* if item in ITEM_TABLE ... else raise Exception
UnknownItems(items) == {k \in 1..Len(items) : items[k] \notin ItemKeys}

\* the dungeon items created for the world, in the order of ITEM_TABLE
RECURSIVE DungeonItemPool(_, _)
DungeonItemPool(lo, hi) ==
    IF lo > hi THEN <<>>
    ELSE IF lo = hi
    THEN IF ITEM_ROWS[lo].type \in {"Big Key", "Small Key", "Map", "Compass"}
         THEN Copies(ITEM_ROWS[lo].name, ITEM_ROWS[lo].quantity)
         ELSE <<>>
    ELSE DungeonItemPool(lo, (lo + hi) \div 2) \o DungeonItemPool(((lo + hi) \div 2) + 1, hi)

\* the option that governs an item, by its type
DungeonItemOption(type, options) ==
    IF type = "Big Key" THEN options.randomize_bigkeys
    ELSE IF type = "Small Key" THEN options.randomize_smallkeys
    ELSE options.randomize_mapcompass

\* the vanilla locations of an item that hold no item
FreeVanillaLocations(name, placed) ==
    {k \in 1..Len(VANILLA_DUNGEON_ITEM_LOCATIONS[name]) :
        placed[VANILLA_DUNGEON_ITEM_LOCATIONS[name][k]] = "None"}

\* variant: the last free location of the list is taken
FirstFreeLocation_Last(name, placed) ==
    IF FreeVanillaLocations(name, placed) = {} THEN 0
    ELSE CHOOSE k \in FreeVanillaLocations(name, placed) :
            \A j \in FreeVanillaLocations(name, placed) : k >= j

\* the first of them (the for loop breaks at the first hit); 0 when there is
\* none (the for loop's else)
FirstFreeLocation(name, placed) ==
    IF FreeVanillaLocations(name, placed) = {} THEN 0
    ELSE CHOOSE k \in FreeVanillaLocations(name, placed) :
            \A j \in FreeVanillaLocations(name, placed) : k <= j

\* variant: pop() without the index, which takes the last element
PopAt_Last(list, at) == SubSeq(list, 1, Len(list) - 1)

\* dungeon_items.pop(x)
PopAt(list, at) == SubSeq(list, 1, at - 1) \o SubSeq(list, at + 1, Len(list))

(***************************************************************************)
(* set_rules: the calls of set_rule in the order of the source, one row a  *)
(* call.  A row names the location the call fetches with                   *)
(* world.get_location.                                                     *)
(***************************************************************************)
RULE_ROWS ==
    << [location |-> "Outset Island - Underneath Link's House"],
       [location |-> "Outset Island - Mesa the Grasscutter's House"],
       [location |-> "Outset Island - Orca - Give 10 Knight's Crests"],
       [location |-> "Outset Island - Great Fairy"],
       [location |-> "Outset Island - Jabun's Cave"],
       [location |-> "Outset Island - Dig up Black Soil"],
       [location |-> "Outset Island - Savage Labyrinth - Floor 30"],
       [location |-> "Outset Island - Savage Labyrinth - Floor 50"],
       [location |-> "Windfall Island - Jail - Tingle - First Gift"],
       [location |-> "Windfall Island - Jail - Tingle - Second Gift"],
       [location |-> "Windfall Island - Jail - Maze Chest"],
       [location |-> "Windfall Island - Chu Jelly Juice Shop - Give 15 Green Chu Jelly"],
       [location |-> "Windfall Island - Chu Jelly Juice Shop - Give 15 Blue Chu Jelly"],
       [location |-> "Windfall Island - Ivan - Catch Killer Bees"],
       [location |-> "Windfall Island - Mrs. Marie - Catch Killer Bees"],
       [location |-> "Windfall Island - Mrs. Marie - Give 1 Joy Pendant"],
       [location |-> "Windfall Island - Mrs. Marie - Give 21 Joy Pendants"],
       [location |-> "Windfall Island - Mrs. Marie - Give 40 Joy Pendants"],
       [location |-> "Windfall Island - Lenzo's House - Left Chest"],
       [location |-> "Windfall Island - Lenzo's House - Right Chest"],
       [location |-> "Windfall Island - Lenzo's House - Become Lenzo's Assistant"],
       [location |-> "Windfall Island - Lenzo's House - Bring Forest Firefly"],
       [location |-> "Windfall Island - House of Wealth Chest"],
       [location |-> "Windfall Island - Maggie's Father - Give 20 Skull Necklaces"],
       [location |-> "Windfall Island - Maggie - Free Item"],
       [location |-> "Windfall Island - Maggie - Delivery Reward"],
       [location |-> "Windfall Island - Cafe Bar - Postman"],
       [location |-> "Windfall Island - Kreeb - Light Up Lighthouse"],
       [location |-> "Windfall Island - Transparent Chest"],
       [location |-> "Windfall Island - Tott - Teach Rhythm"],
       [location |-> "Windfall Island - Pirate Ship"],
       [location |-> "Windfall Island - 5 Rupee Auction"],
       [location |-> "Windfall Island - 40 Rupee Auction"],
       [location |-> "Windfall Island - 60 Rupee Auction"],
       [location |-> "Windfall Island - 80 Rupee Auction"],
       [location |-> "Windfall Island - Zunari - Stock Exotic Flower in Zunari's Shop"],
       [location |-> "Windfall Island - Sam - Decorate the Town"],
       [location |-> "Windfall Island - Mila - Follow the Thief"],
       [location |-> "Windfall Island - Battlesquid - First Prize"],
       [location |-> "Windfall Island - Battlesquid - Second Prize"],
       [location |-> "Windfall Island - Battlesquid - Under 20 Shots Prize"],
       [location |-> "Windfall Island - Pompie and Vera - Secret Meeting Photo"],
       [location |-> "Windfall Island - Kamo - Full Moon Photo"],
       [location |-> "Windfall Island - Minenco - Miss Windfall Photo"],
       [location |-> "Windfall Island - Linda and Anton"],
       [location |-> "Dragon Roost Island - Wind Shrine"],
       [location |-> "Dragon Roost Island - Rito Aerie - Give Hoskit 20 Golden Feathers"],
       [location |-> "Dragon Roost Island - Chest on Top of Boulder"],
       [location |-> "Dragon Roost Island - Fly Across Platforms Around Island"],
       [location |-> "Dragon Roost Island - Rito Aerie - Mail Sorting"],
       [location |-> "Dragon Roost Island - Secret Cave"],
       [location |-> "Dragon Roost Cavern - First Room"],
       [location |-> "Dragon Roost Cavern - Alcove With Water Jugs"],
       [location |-> "Dragon Roost Cavern - Water Jug on Upper Shelf"],
       [location |-> "Dragon Roost Cavern - Boarded Up Chest"],
       [location |-> "Dragon Roost Cavern - Chest Across Lava Pit"],
       [location |-> "Dragon Roost Cavern - Rat Room"],
       [location |-> "Dragon Roost Cavern - Rat Room Boarded Up Chest"],
       [location |-> "Dragon Roost Cavern - Bird's Nest"],
       [location |-> "Dragon Roost Cavern - Dark Room"],
       [location |-> "Dragon Roost Cavern - Tingle Chest in Hub Room"],
       [location |-> "Dragon Roost Cavern - Pot on Upper Shelf in Pot Room"],
       [location |-> "Dragon Roost Cavern - Pot Room Chest"],
       [location |-> "Dragon Roost Cavern - Miniboss"],
       [location |-> "Dragon Roost Cavern - Under Rope Bridge"],
       [location |-> "Dragon Roost Cavern - Tingle Statue Chest"],
       [location |-> "Dragon Roost Cavern - Big Key Chest"],
       [location |-> "Dragon Roost Cavern - Boss Stairs Right Chest"],
       [location |-> "Dragon Roost Cavern - Boss Stairs Left Chest"],
       [location |-> "Dragon Roost Cavern - Boss Stairs Right Pot"],
       [location |-> "Dragon Roost Cavern - Gohma Heart Container"],
       [location |-> "Forest Haven - On Tree Branch"],
       [location |-> "Forest Haven - Small Island Chest"],
       [location |-> "Forbidden Woods - First Room"],
       [location |-> "Forbidden Woods - Inside Hollow Tree's Mouth"],
       [location |-> "Forbidden Woods - Climb to Top Using Boko Baba Bulbs"],
       [location |-> "Forbidden Woods - Pot High Above Hollow Tree"],
       [location |-> "Forbidden Woods - Hole in Tree"],
       [location |-> "Forbidden Woods - Morth Pit"],
       [location |-> "Forbidden Woods - Vine Maze Left Chest"],
       [location |-> "Forbidden Woods - Vine Maze Right Chest"],
       [location |-> "Forbidden Woods - Highest Pot in Vine Maze"],
       [location |-> "Forbidden Woods - Tall Room Before Miniboss"],
       [location |-> "Forbidden Woods - Mothula Miniboss Room"],
       [location |-> "Forbidden Woods - Past Seeds Hanging by Vines"],
       [location |-> "Forbidden Woods - Chest Across Red Hanging Flower"],
       [location |-> "Forbidden Woods - Tingle Statue Chest"],
       [location |-> "Forbidden Woods - Chest in Locked Tree Trunk"],
       [location |-> "Forbidden Woods - Big Key Chest"],
       [location |-> "Forbidden Woods - Double Mothula Room"],
       [location |-> "Forbidden Woods - Kalle Demos Heart Container"],
       [location |-> "Greatfish Isle - Hidden Chest"],
       [location |-> "Tower of the Gods - Chest Behind Bombable Walls"],
       [location |-> "Tower of the Gods - Pot Behind Bombable Walls"],
       [location |-> "Tower of the Gods - Hop Across Floating Boxes"],
       [location |-> "Tower of the Gods - Light Two Torches"],
       [location |-> "Tower of the Gods - Skulls Room Chest"],
       [location |-> "Tower of the Gods - Shoot Eye Above Skulls Room Chest"],
       [location |-> "Tower of the Gods - Tingle Statue Chest"],
       [location |-> "Tower of the Gods - First Chest Guarded by Armos Knights"],
       [location |-> "Tower of the Gods - Stone Tablet"],
       [location |-> "Tower of the Gods - Darknut Miniboss Room"],
       [location |-> "Tower of the Gods - Second Chest Guarded by Armos Knights"],
       [location |-> "Tower of the Gods - Floating Platforms Room"],
       [location |-> "Tower of the Gods - Top of Floating Platforms Room"],
       [location |-> "Tower of the Gods - Eastern Pot in Big Key Chest Room"],
       [location |-> "Tower of the Gods - Big Key Chest"],
       [location |-> "Tower of the Gods - Gohdan Heart Container"],
       [location |-> "Hyrule - Master Sword Chamber"],
       [location |-> "Forsaken Fortress - Phantom Ganon"],
       [location |-> "Forsaken Fortress - Chest Outside Upper Jail Cell"],
       [location |-> "Forsaken Fortress - Chest Inside Lower Jail Cell"],
       [location |-> "Forsaken Fortress - Chest Guarded By Bokoblin"],
       [location |-> "Forsaken Fortress - Chest on Bed"],
       [location |-> "Forsaken Fortress - Helmaroc King Heart Container"],
       [location |-> "Mother and Child Isles - Inside Mother Isle"],
       [location |-> "Fire Mountain - Cave - Chest"],
       [location |-> "Fire Mountain - Lookout Platform Chest"],
       [location |-> "Fire Mountain - Lookout Platform - Destroy the Cannons"],
       [location |-> "Fire Mountain - Big Octo"],
       [location |-> "Ice Ring Isle - Frozen Chest"],
       [location |-> "Ice Ring Isle - Cave - Chest"],
       [location |-> "Ice Ring Isle - Inner Cave - Chest"],
       [location |-> "Headstone Island - Top of the Island"],
       [location |-> "Headstone Island - Submarine"],
       [location |-> "Earth Temple - Transparent Chest In Warp Pot Room"],
       [location |-> "Earth Temple - Behind Curtain In Warp Pot Room"],
       [location |-> "Earth Temple - Transparent Chest in First Crypt"],
       [location |-> "Earth Temple - Chest Behind Destructible Walls"],
       [location |-> "Earth Temple - Chest In Three Blocks Room"],
       [location |-> "Earth Temple - Chest Behind Statues"],
       [location |-> "Earth Temple - Casket in Second Crypt"],
       [location |-> "Earth Temple - Stalfos Miniboss Room"],
       [location |-> "Earth Temple - Tingle Statue Chest"],
       [location |-> "Earth Temple - End of Foggy Room With Floormasters"],
       [location |-> "Earth Temple - Kill All Floormasters in Foggy Room"],
       [location |-> "Earth Temple - Behind Curtain Next to Hammer Button"],
       [location |-> "Earth Temple - Chest in Third Crypt"],
       [location |-> "Earth Temple - Many Mirrors Room Right Chest"],
       [location |-> "Earth Temple - Many Mirrors Room Left Chest"],
       [location |-> "Earth Temple - Stalfos Crypt Room"],
       [location |-> "Earth Temple - Big Key Chest"],
       [location |-> "Earth Temple - Jalhalla Heart Container"],
       [location |-> "Wind Temple - Chest Between Two Dirt Patches"],
       [location |-> "Wind Temple - Behind Stone Head in Hidden Upper Room"],
       [location |-> "Wind Temple - Tingle Statue Chest"],
       [location |-> "Wind Temple - Chest Behind Stone Head"],
       [location |-> "Wind Temple - Chest in Left Alcove"],
       [location |-> "Wind Temple - Big Key Chest"],
       [location |-> "Wind Temple - Chest In Many Cyclones Room"],
       [location |-> "Wind Temple - Behind Stone Head in Many Cyclones Room"],
       [location |-> "Wind Temple - Chest In Middle Of Hub Room"],
       [location |-> "Wind Temple - Spike Wall Room - First Chest"],
       [location |-> "Wind Temple - Spike Wall Room - Destroy All Cracked Floors"],
       [location |-> "Wind Temple - Wizzrobe Miniboss Room"],
       [location |-> "Wind Temple - Chest at Top of Hub Room"],
       [location |-> "Wind Temple - Chest Behind Seven Armos"],
       [location |-> "Wind Temple - Kill All Enemies in Tall Basement Room"],
       [location |-> "Wind Temple - Molgera Heart Container"],
       [location |-> "Ganon's Tower - Maze Chest"],
       [location |-> "Mailbox - Letter from Hoskit's Girlfriend"],
       [location |-> "Mailbox - Letter from Baito's Mother"],
       [location |-> "Mailbox - Letter from Baito"],
       [location |-> "Mailbox - Letter from Komali's Father"],
       [location |-> "Mailbox - Letter Advertising Bombs in Beedle's Shop"],
       [location |-> "Mailbox - Letter Advertising Rock Spire Shop Ship"],
       [location |-> "Mailbox - Letter from Orca"],
       [location |-> "Mailbox - Letter from Grandma"],
       [location |-> "Mailbox - Letter from Aryll"],
       [location |-> "Mailbox - Letter from Tingle"],
       [location |-> "The Great Sea - Beedle's Shop Ship - 20 Rupee Item"],
       [location |-> "The Great Sea - Salvage Corp Gift"],
       [location |-> "The Great Sea - Cyclos"],
       [location |-> "The Great Sea - Goron Trading Reward"],
       [location |-> "The Great Sea - Withered Trees"],
       [location |-> "The Great Sea - Ghost Ship"],
       [location |-> "Private Oasis - Chest at Top of Waterfall"],
       [location |-> "Private Oasis - Cabana Labyrinth - Lower Floor Chest"],
       [location |-> "Private Oasis - Cabana Labyrinth - Upper Floor Chest"],
       [location |-> "Private Oasis - Big Octo"],
       [location |-> "Spectacle Island - Barrel Shooting - First Prize"],
       [location |-> "Spectacle Island - Barrel Shooting - Second Prize"],
       [location |-> "Needle Rock Isle - Chest"],
       [location |-> "Needle Rock Isle - Cave"],
       [location |-> "Needle Rock Isle - Golden Gunboat"],
       [location |-> "Angular Isles - Peak"],
       [location |-> "Angular Isles - Cave"],
       [location |-> "Boating Course - Raft"],
       [location |-> "Boating Course - Cave"],
       [location |-> "Stone Watcher Island - Cave"],
       [location |-> "Stone Watcher Island - Lookout Platform Chest"],
       [location |-> "Stone Watcher Island - Lookout Platform - Destroy the Cannons"],
       [location |-> "Islet of Steel - Interior"],
       [location |-> "Islet of Steel - Lookout Platform - Defeat the Enemies"],
       [location |-> "Overlook Island - Cave"],
       [location |-> "Bird's Peak Rock - Cave"],
       [location |-> "Pawprint Isle - Chuchu Cave - Chest"],
       [location |-> "Pawprint Isle - Chuchu Cave - Behind Left Boulder"],
       [location |-> "Pawprint Isle - Chuchu Cave - Behind Right Boulder"],
       [location |-> "Pawprint Isle - Chuchu Cave - Scale the Wall"],
       [location |-> "Pawprint Isle - Wizzrobe Cave"],
       [location |-> "Pawprint Isle - Lookout Platform - Defeat the Enemies"],
       [location |-> "Thorned Fairy Island - Great Fairy"],
       [location |-> "Thorned Fairy Island - Northeastern Lookout Platform - Destroy the Cannons"],
       [location |-> "Thorned Fairy Island - Southwestern Lookout Platform - Defeat the Enemies"],
       [location |-> "Eastern Fairy Island - Great Fairy"],
       [location |-> "Eastern Fairy Island - Lookout Platform - Defeat the Cannons and Enemies"],
       [location |-> "Western Fairy Island - Great Fairy"],
       [location |-> "Western Fairy Island - Lookout Platform"],
       [location |-> "Southern Fairy Island - Great Fairy"],
       [location |-> "Southern Fairy Island - Lookout Platform - Destroy the Northwest Cannons"],
       [location |-> "Southern Fairy Island - Lookout Platform - Destroy the Southeast Cannons"],
       [location |-> "Northern Fairy Island - Great Fairy"],
       [location |-> "Northern Fairy Island - Submarine"],
       [location |-> "Tingle Island - Ankle - Reward for All Tingle Statues"],
       [location |-> "Tingle Island - Big Octo"],
       [location |-> "Diamond Steppe Island - Warp Maze Cave - First Chest"],
       [location |-> "Diamond Steppe Island - Warp Maze Cave - Second Chest"],
       [location |-> "Diamond Steppe Island - Big Octo"],
       [location |-> "Bomb Island - Cave"],
       [location |-> "Bomb Island - Lookout Platform - Defeat the Enemies"],
       [location |-> "Bomb Island - Submarine"],
       [location |-> "Rock Spire Isle - Cave"],
       [location |-> "Rock Spire Isle - Beedle's Special Shop Ship - 500 Rupee Item"],
       [location |-> "Rock Spire Isle - Beedle's Special Shop Ship - 950 Rupee Item"],
       [location |-> "Rock Spire Isle - Beedle's Special Shop Ship - 900 Rupee Item"],
       [location |-> "Rock Spire Isle - Western Lookout Platform - Destroy the Cannons"],
       [location |-> "Rock Spire Isle - Eastern Lookout Platform - Destroy the Cannons"],
       [location |-> "Rock Spire Isle - Center Lookout Platform"],
       [location |-> "Rock Spire Isle - Southeast Gunboat"],
       [location |-> "Shark Island - Cave"],
       [location |-> "Cliff Plateau Isles - Cave"],
       [location |-> "Cliff Plateau Isles - Highest Isle"],
       [location |-> "Cliff Plateau Isles - Lookout Platform"],
       [location |-> "Crescent Moon Island - Chest"],
       [location |-> "Crescent Moon Island - Submarine"],
       [location |-> "Horseshoe Island - Play Golf"],
       [location |-> "Horseshoe Island - Cave"],
       [location |-> "Horseshoe Island - Northwestern Lookout Platform"],
       [location |-> "Horseshoe Island - Southeastern Lookout Platform"],
       [location |-> "Flight Control Platform - Bird-Man Contest - First Prize"],
       [location |-> "Flight Control Platform - Submarine"],
       [location |-> "Star Island - Cave"],
       [location |-> "Star Island - Lookout Platform"],
       [location |-> "Star Belt Archipelago - Lookout Platform"],
       [location |-> "Five-Star Isles - Lookout Platform - Destroy the Cannons"],
       [location |-> "Five-Star Isles - Raft"],
       [location |-> "Five-Star Isles - Submarine"],
       [location |-> "Seven-Star Isles - Center Lookout Platform"],
       [location |-> "Seven-Star Isles - Northern Lookout Platform"],
       [location |-> "Seven-Star Isles - Southern Lookout Platform"],
       [location |-> "Seven-Star Isles - Big Octo"],
       [location |-> "Cyclops Reef - Destroy the Cannons and Gunboats"],
       [location |-> "Cyclops Reef - Lookout Platform - Defeat the Enemies"],
       [location |-> "Two-Eye Reef - Destroy the Cannons and Gunboats"],
       [location |-> "Two-Eye Reef - Lookout Platform"],
       [location |-> "Two-Eye Reef - Big Octo Great Fairy"],
       [location |-> "Three-Eye Reef - Destroy the Cannons and Gunboats"],
       [location |-> "Four-Eye Reef - Destroy the Cannons and Gunboats"],
       [location |-> "Five-Eye Reef - Destroy the Cannons"],
       [location |-> "Five-Eye Reef - Lookout Platform"],
       [location |-> "Six-Eye Reef - Destroy the Cannons and Gunboats"],
       [location |-> "Six-Eye Reef - Lookout Platform - Destroy the Cannons"],
       [location |-> "Six-Eye Reef - Submarine"],
       [location |-> "Forsaken Fortress Sector - Sunken Treasure"],
       [location |-> "Star Island - Sunken Treasure"],
       [location |-> "Northern Fairy Island - Sunken Treasure"],
       [location |-> "Gale Isle - Sunken Treasure"],
       [location |-> "Crescent Moon Island - Sunken Treasure"],
       [location |-> "Seven-Star Isles - Sunken Treasure"],
       [location |-> "Overlook Island - Sunken Treasure"],
       [location |-> "Four-Eye Reef - Sunken Treasure"],
       [location |-> "Mother and Child Isles - Sunken Treasure"],
       [location |-> "Spectacle Island - Sunken Treasure"],
       [location |-> "Windfall Island - Sunken Treasure"],
       [location |-> "Pawprint Isle - Sunken Treasure"],
       [location |-> "Dragon Roost Island - Sunken Treasure"],
       [location |-> "Flight Control Platform - Sunken Treasure"],
       [location |-> "Western Fairy Island - Sunken Treasure"],
       [location |-> "Rock Spire Isle - Sunken Treasure"],
       [location |-> "Tingle Island - Sunken Treasure"],
       [location |-> "Northern Triangle Island - Sunken Treasure"],
       [location |-> "Eastern Fairy Island - Sunken Treasure"],
       [location |-> "Fire Mountain - Sunken Treasure"],
       [location |-> "Star Belt Archipelago - Sunken Treasure"],
       [location |-> "Three-Eye Reef - Sunken Treasure"],
       [location |-> "Greatfish Isle - Sunken Treasure"],
       [location |-> "Cyclops Reef - Sunken Treasure"],
       [location |-> "Six-Eye Reef - Sunken Treasure"],
       [location |-> "Tower of the Gods Sector - Sunken Treasure"],
       [location |-> "Eastern Triangle Island - Sunken Treasure"],
       [location |-> "Thorned Fairy Island - Sunken Treasure"],
       [location |-> "Needle Rock Isle - Sunken Treasure"],
       [location |-> "Islet of Steel - Sunken Treasure"],
       [location |-> "Stone Watcher Island - Sunken Treasure"],
       [location |-> "Southern Triangle Island - Sunken Treasure"],
       [location |-> "Private Oasis - Sunken Treasure"],
       [location |-> "Bomb Island - Sunken Treasure"],
       [location |-> "Bird's Peak Rock - Sunken Treasure"],
       [location |-> "Diamond Steppe Island - Sunken Treasure"],
       [location |-> "Five-Eye Reef - Sunken Treasure"],
       [location |-> "Shark Island - Sunken Treasure"],
       [location |-> "Southern Fairy Island - Sunken Treasure"],
       [location |-> "Ice Ring Isle - Sunken Treasure"],
       [location |-> "Forest Haven - Sunken Treasure"],
       [location |-> "Cliff Plateau Isles - Sunken Treasure"],
       [location |-> "Horseshoe Island - Sunken Treasure"],
       [location |-> "Outset Island - Sunken Treasure"],
       [location |-> "Headstone Island - Sunken Treasure"],
       [location |-> "Two-Eye Reef - Sunken Treasure"],
       [location |-> "Angular Isles - Sunken Treasure"],
       [location |-> "Boating Course - Sunken Treasure"],
       [location |-> "Five-Star Isles - Sunken Treasure"],
       [location |-> "Defeat Ganondorf"] >>

\* the location the k-th call of set_rule fetches
RuleLocation(k) == RULE_ROWS[k].location

(***************************************************************************)
(* The state.                                                              *)
(***************************************************************************)
VARIABLES
    \* dolphin_sync_task and the coroutines it awaits
    pc,                 \* where the sync task stands
    expected_idx,       \* give_items' local expected_idx
    give_pos,           \* position of give_items' for loop in its list (1-based)
    give_list,          \* the list object the for loop iterates, once ctx no longer refers to it
    give_alias,         \* TRUE while the for loop's list is ctx.items_received_2 itself
    \* TWWContext
    dolphin_status,
    items_received_2,   \* sequence of [item, index]
    last_rcvd_index,
    has_send_death,
    \* CommonContext (the host framework's fields the client reads and writes)
    server_slot,        \* ctx.server and ctx.slot are set
    death_link,         \* "DeathLink" in ctx.tags
    tag_update,         \* the update_death_link task on_package started, until it runs
    last_death_link,
    finished_game,
    locations_checked,
    checked_locations,
    exit_event,
    \* dolphin_memory_engine
    hooked,             \* is_hooked()
    \* game memory
    game_id,            \* the 6 bytes at 0x80000000
    stage_name,         \* CURR_STAGE_NAME_ADDR
    give_array,         \* GIVE_ITEM_ARRAY_ADDR, 16 bytes
    mem_expected,       \* EXPECTED_INDEX_ADDR, 2 bytes
    mem_health,         \* CURR_HEALTH_ADDR, 2 bytes
    curr_stage_id,      \* CURR_STAGE_ID_ADDR
    chests_bitfield,
    sea_alt_bitfield,
    switches_bitfield,
    mail_byte,          \* the byte of "Mailbox - Letter from Grandma"
    \* the world outside
    now,                \* time.time(), in seconds
    server_checked,     \* the location ids the server has received
    \* what the client did (history)
    ev,                 \* what the last step sent or wrote
    msg_locs,           \* the locations of the last LocationChecks message
    last_writes,        \* the indices of the last two entries written to the give-item array
    pass_written,       \* the indices written since the current give_items pass began
    goal_msgs           \* StatusUpdate/CLIENT_GOAL messages sent (counted to 2)

syncVars == <<pc, expected_idx, give_pos, give_list, give_alias>>
ctxVars == <<dolphin_status, items_received_2, last_rcvd_index, has_send_death>>
commonVars == <<server_slot, death_link, tag_update, last_death_link, finished_game,
                locations_checked, checked_locations, exit_event>>
itemMem == <<give_array, mem_expected>>
locMem == <<curr_stage_id, chests_bitfield, sea_alt_bitfield, switches_bitfield, mail_byte>>
gameVars == <<game_id, stage_name, mem_health, itemMem, locMem>>
histVars == <<msg_locs, last_writes, pass_written, goal_msgs>>
clientVars == <<syncVars, ctxVars, commonVars, hooked, gameVars, now, server_checked, ev, histVars>>

VARIABLES
    \* generation of a world (generate_itempool), which no client takes part in
    gen,            \* the calls in progress: where they stand and their locals
    world,          \* the TWWWorld: what generation reads and writes of it
    multiworld,     \* the MultiWorld: what generation reads and writes of it
    py_random,      \* the state of the random module's own generator
    first_run       \* the filler bucket and the returned pool of the first generation (history)

\* gen: where generation stands, and the locals of get_pool_core and
\* handle_dungeon_items
gpc == gen.pc
run == gen.run                      \* 1 for the first generation, 2 for the one repeated with the same seed
gen_error == gen.error              \* the exception that ended generation
progression_pool == gen.progression_pool
pool == gen.pool
precollected_items == gen.precollected_items
num_items_left_to_place == gen.num_items_left_to_place
dungeon_items == gen.dungeon_items
x == gen.x                          \* the index of the reverse loop, 1-based (0: the loop is over)

\* world
options == world.options
num_locations == world.num_locations    \* len(multiworld.get_locations(player))
dungeon_local_item_names == world.dungeon_local_item_names
banned_dungeons == world.banned_dungeons    \* world.boss_reqs.banned_dungeons
occupied == world.occupied              \* the locations filled before generate_itempool (an input)
useful_pool == world.useful_pool
filler_pool == world.filler_pool

\* multiworld
seed == multiworld.seed
mw_random == multiworld.random          \* the state of multiworld.random
itempool == multiworld.itempool         \* names
mw_precollected == multiworld.precollected_items    \* of the player; names
location_item == multiworld.location_item   \* location.item of the locations generation fills
reclassified == multiworld.reclassified \* the dungeon items whose classification was set to filler

genVars == <<gen, world, multiworld, py_random, first_run>>
vars == <<clientVars, genVars>>

\* The server's list of items for this slot: item i is ServerItem(i).
ServerItem(i) ==
    IF i % 2 = 0 THEN TWWItem_get_apid(ITEM_TABLE["Wind Waker"].code)
    ELSE TWWItem_get_apid(ITEM_TABLE["Triforce Chart 1"].code)

GameIds == {"GZLE99", "GZLE01"}
HealthValues == {<<0, 0>>, <<0, 1>>, <<1, 0>>}

\* no update_death_link task is waiting to run
NoUpdate == [started |-> FALSE, death_link |-> FALSE, overtaken |-> FALSE]

\* what check_locations reads of the game: the bitfields of the stage and the
\* flag bytes of the table's entries; the charts, the pickups and the delivery
\* bag, which no entry of the table reads, are those of a new save
LocationMemory ==
    [charts_bitfield |-> 0,
     sea_alt_bitfield |-> sea_alt_bitfield,
     chests_bitfield |-> chests_bitfield,
     switches_bitfield |-> switches_bitfield,
     pickups_bitfield |-> 0,
     letter_owned |-> 0,
     dbag_contents |-> [offset \in 1..8 |-> 255],
     bytes |-> [address \in {1} |-> mail_byte]]

\* TWWContext.__init__ and CommonContext.__init__, in main: the server loop
\* is started and dolphin_sync_task is not created yet; the game is in any
\* stage, its save holds any expected index up to MaxSavedIdx, and the
\* give-item slots from ActiveSlots up hold unconsumed items.
ClientInit ==
    /\ pc = "start"
    /\ expected_idx = 0
    /\ give_pos = 1
    /\ give_list = <<>>
    /\ give_alias = TRUE
    /\ dolphin_status = CONNECTION_INITIAL_STATUS
    /\ items_received_2 = <<>>
    /\ last_rcvd_index = 0 - 1
    /\ has_send_death = FALSE
    /\ server_slot = FALSE
    /\ death_link = FALSE
    /\ tag_update = NoUpdate
    /\ last_death_link = 0
    /\ finished_game = FALSE
    /\ locations_checked = {}
    /\ checked_locations = {}
    /\ exit_event = FALSE
    /\ hooked = FALSE
    /\ game_id \in GameIds
    /\ stage_name \in StageNames
    /\ give_array = [i \in 0..(len_give_item_array - 1) |->
                        IF i < ActiveSlots THEN FREE_SLOT ELSE ITEM_TABLE["Wind Waker"].item_id]
    /\ mem_expected \in {to_bytes_2(v) : v \in 0..MaxSavedIdx}
    /\ mem_health = <<0, 1>>
    /\ curr_stage_id = 0
    /\ chests_bitfield = 0
    /\ sea_alt_bitfield = 0
    /\ switches_bitfield = 0
    /\ mail_byte = 0
    /\ now = 0
    /\ server_checked = {}
    /\ ev = "none"
    /\ msg_locs = {}
    /\ last_writes = <<0 - 1, 0 - 1>>
    /\ pass_written = {}
    /\ goal_msgs = 0

\* no world is being generated while a client runs
NoOptions ==
    [sword_mode |-> "start_with_sword", better_filler |-> "standard_filler",
     progression_treasure_charts |-> FALSE, progression_triforce_charts |-> FALSE,
     randomize_bigkeys |-> "keylock", randomize_smallkeys |-> "keylock",
     randomize_mapcompass |-> "keylock"]

\* a world before get_pool_core, a multiworld before generate_itempool
NewWorld(opts, locations, filled) ==
    [options |-> opts, num_locations |-> locations,
     dungeon_local_item_names |-> IF filled = {} THEN {} ELSE {"DRC Compass"},
     banned_dungeons |-> IF filled = {} THEN {} ELSE {"DRC"},
     occupied |-> filled, useful_pool |-> <<>>, filler_pool |-> <<>>]

NewMultiworld(s, locations, filled) ==
    [seed |-> s, random |-> s, itempool |-> <<>>, precollected_items |-> <<>>,
     location_item |-> [l \in locations |-> IF l \in filled THEN "Placed Earlier" ELSE "None"],
     reclassified |-> {}]

NewGen(at, n) ==
    [pc |-> at, run |-> n, error |-> "none", progression_pool |-> <<>>, pool |-> <<>>,
     precollected_items |-> <<>>, num_items_left_to_place |-> 0, dungeon_items |-> <<>>, x |-> 0]

GenIdle ==
    /\ gen = NewGen("idle", 1)
    /\ world = NewWorld(NoOptions, 0, {})
    /\ multiworld = NewMultiworld(0, {}, {})
    /\ py_random = 0
    /\ first_run = [filler |-> <<>>, pool |-> <<>>]

Init == ClientInit /\ GenIdle

(***************************************************************************)
(* The worlds generation starts from.                                      *)
(***************************************************************************)
SwordModes == {"start_with_sword", "no_starting_sword", "swordless"}
BetterFillerModes == {"standard_filler", "remove_treasure_charts", "remove_triforce_charts",
                      "remove_both_charts"}
DungeonItemModes == {"startwith", "vanilla", "keylock"}

\* the dungeon items of the world (get_dungeon_item_pool_player): every
\* dungeon's, in the order of ITEM_TABLE
DungeonItems == DungeonItemPool(1, Len(ITEM_ROWS))

\* the dungeon an item belongs to (item.dungeon.name)
DUNGEON_ITEMS ==
    [DRC |-> {"DRC Small Key", "DRC Big Key", "DRC Dungeon Map", "DRC Compass"},
     FW |-> {"FW Small Key", "FW Big Key", "FW Dungeon Map", "FW Compass"},
     TotG |-> {"TotG Small Key", "TotG Big Key", "TotG Dungeon Map", "TotG Compass"},
     FF |-> {"FF Dungeon Map", "FF Compass"},
     ET |-> {"ET Small Key", "ET Big Key", "ET Dungeon Map", "ET Compass"},
     WT |-> {"WT Small Key", "WT Big Key", "WT Dungeon Map", "WT Compass"}]

DungeonOf(name) == CHOOSE d \in DOMAIN DUNGEON_ITEMS : name \in DUNGEON_ITEMS[d]

\* the locations generate_itempool reads or fills
GenLocations ==
    {"Defeat Ganondorf"} \cup
    UNION {Range(VANILLA_ROWS[k].locations) : k \in 1..Len(VANILLA_ROWS)}

\* the number of the world's locations: the Defeat Ganondorf location, one
\* for every dungeon item and every progression item, and `spare` more
\* (-1: one too few)
LocationCount(opts, spare) ==
    1 + Len(DungeonItems) + Len(SplitPool("progression", opts, 1, Len(ITEM_ROWS))) + spare

\* the spare locations of a world with one location for every item of
\* ITEM_TABLE: as many as the useful and the filler pool hold
WholeTable(opts) ==
    Len(SplitPool("useful", opts, 1, Len(ITEM_ROWS))) +
    Len(SplitPool("filler", opts, 1, Len(ITEM_ROWS)))

\* more locations than ITEM_TABLE has items
Plenty(opts) == WholeTable(opts) + MaxSpare

\* worlds of every size around the one the progression and dungeon items need
PoolSpares(opts) == ((0 - 1)..MaxSpare) \cup {Plenty(opts)}

\* worlds with a location for every item of ITEM_TABLE, or more
DungeonSpares(opts) == {WholeTable(opts), Plenty(opts)}

PoolOptions ==
    [sword_mode : SwordModes, better_filler : BetterFillerModes,
     progression_treasure_charts : BOOLEAN, progression_triforce_charts : BOOLEAN,
     randomize_bigkeys : {"keylock"}, randomize_smallkeys : {"keylock"},
     randomize_mapcompass : {"keylock"}]

DungeonOptions ==
    [sword_mode : {"start_with_sword"}, better_filler : {"standard_filler", "remove_both_charts"},
     progression_treasure_charts : {FALSE}, progression_triforce_charts : {FALSE},
     randomize_bigkeys : DungeonItemModes, randomize_smallkeys : DungeonItemModes,
     randomize_mapcompass : DungeonItemModes]

\* generation starts: the client never runs (it stays as constructed), the
\* world's options, locations and seed are chosen, and the random module's
\* own generator, which nobody seeds, is in any state
GenInit(optionChoices, spareChoices, occupiedChoices, seedChoices) ==
    /\ ClientInit
    /\ game_id = GAME_ID
    /\ stage_name = "sea"
    /\ mem_expected = to_bytes_2(0)
    /\ gen = NewGen("get_pool_core", 1)
    /\ \E opts \in optionChoices, filled \in occupiedChoices :
          /\ world \in {NewWorld(opts, LocationCount(opts, spare), filled) :
                            spare \in spareChoices[opts]}
          /\ multiworld \in {NewMultiworld(s, GenLocations, filled) : s \in seedChoices}
    /\ py_random \in 0..MaxSeed
    /\ first_run = [filler |-> <<>>, pool |-> <<>>]

InitPool == GenInit(PoolOptions, [opts \in PoolOptions |-> PoolSpares(opts)], {{}}, 0..MaxSeed)

\* with every location free, or with one of the vanilla locations filled
\* earlier in a world that keeps a dungeon item local and bans a dungeon
InitDungeon ==
    GenInit(DungeonOptions, [opts \in DungeonOptions |-> DungeonSpares(opts)],
            {{}, {"Dragon Roost Cavern - First Room"}}, {0})


(***************************************************************************)
(* dolphin_sync_task: the statements of the loop itself.  The task is      *)
(* suspended at "tick" (sleep 0.5), "sleep5" (sleep 5), "give_wait"        *)
(* (sleep 0.01), at the awaited sends "death_send", "goal_send" and        *)
(* "checks_send", and at "disconnect" (await ctx.disconnect(), which       *)
(* resets the server session before it returns).  Before its first step    *)
(* the task does not exist ("start": main sleeps 1 s while the server loop *)
(* runs) or waits on the ready queue ("created"); after its last it is     *)
(* "done".                                                                 *)
(***************************************************************************)
SuspendPcs ==
    {"start", "created", "tick", "sleep5", "give_wait", "death_send", "goal_send",
     "checks_send", "disconnect", "done"}

\* asyncio.sleep always hands control to the event loop, and so does the
\* creation of the task
SleepPcs == {"created", "tick", "sleep5", "give_wait"}

\* Utils.async_start puts update_death_link on the event loop's ready queue:
\* the sync task, if its sleep is over in the same pass of the event loop,
\* runs once more before the started task, and not a second time
Resumable == ~(pc \in SleepPcs /\ tag_update.overtaken)

AfterResume ==
    IF pc \in SleepPcs /\ tag_update.started
    THEN [tag_update EXCEPT !.overtaken = TRUE]
    ELSE tag_update

\* where the loop goes when hooked and connected
ConnectedBranch(server_and_slot, deathlink_tag) ==
    IF server_and_slot
    THEN IF deathlink_tag THEN "check_death" ELSE "give_items"
    ELSE "tick"

\* variant: only the status is tested
IsConnected_StatusOnly(is_hooked, status) == status = CONNECTION_CONNECTED_STATUS

\* if dolphin_memory_engine.is_hooked() and ctx.dolphin_status == CONNECTION_CONNECTED_STATUS
IsConnected(is_hooked, status) == is_hooked /\ status = CONNECTION_CONNECTED_STATUS

\* variant: the game id is not compared
HookStatus_AnyGame(is_hooked, id, stage) ==
    IF ~is_hooked THEN CONNECTION_LOST_STATUS
    ELSE IF ~check_ingame(stage) THEN CONNECTION_REFUSED_SAVE_STATUS
    ELSE CONNECTION_CONNECTED_STATUS

\* the status the hook attempt ends with
HookStatus(is_hooked, id, stage) ==
    IF ~is_hooked THEN CONNECTION_LOST_STATUS
    ELSE IF id # GAME_ID THEN CONNECTION_REFUSED_GAME_STATUS
    ELSE IF ~check_ingame(stage) THEN CONNECTION_REFUSED_SAVE_STATUS
    ELSE CONNECTION_CONNECTED_STATUS

\* variant: the refused branches do not call un_hook()
HookKept_Always(is_hooked, id, stage) == is_hooked

\* whether the hook is kept after the attempt (un_hook() in the refused branches)
HookKept(is_hooked, id, stage) ==
    HookStatus(is_hooked, id, stage) = CONNECTION_CONNECTED_STATUS

\* main, lines 310-312: the sleep of 1 s is over and dolphin_sync_task is
\* created; the new task is put on the ready queue, behind an
\* update_death_link task that was started before
Main ==
    /\ pc = "start"
    /\ pc' = "created"
    /\ tag_update' = IF tag_update.started
                      THEN [tag_update EXCEPT !.overtaken = TRUE]
                      ELSE tag_update
    /\ ev' = "none"
    /\ UNCHANGED <<expected_idx, give_pos, give_list, give_alias>>
    /\ UNCHANGED <<ctxVars, hooked, gameVars, now, server_checked, histVars>>
    /\ UNCHANGED <<server_slot, death_link, last_death_link, finished_game,
                   locations_checked, checked_locations, exit_event>>
    /\ UNCHANGED genVars

SyncTask ==
    /\ pc \in {"created", "loop", "hook", "disconnect", "sleep5", "tick"}
    /\ Resumable
    /\ tag_update' = AfterResume
    /\ \E hook_ok \in BOOLEAN :
        CASE pc = "loop" ->
              IF exit_event
              THEN /\ pc' = "done"
                   /\ UNCHANGED <<dolphin_status, hooked, server_slot, locations_checked>>
              ELSE IF IsConnected(hooked, dolphin_status)
              THEN /\ pc' = ConnectedBranch(server_slot, death_link)
                   /\ UNCHANGED <<dolphin_status, hooked, server_slot, locations_checked>>
              ELSE /\ dolphin_status' = IF dolphin_status = CONNECTION_CONNECTED_STATUS
                                        THEN CONNECTION_LOST_STATUS ELSE dolphin_status
                   /\ pc' = "hook"
                   /\ UNCHANGED <<hooked, server_slot, locations_checked>>
          [] pc = "hook" ->
              /\ dolphin_status' = HookStatus(hook_ok, game_id, stage_name)
              /\ hooked' = (hook_ok /\ HookKept(hook_ok, game_id, stage_name))
              /\ locations_checked' =
                    IF HookStatus(hook_ok, game_id, stage_name) = CONNECTION_CONNECTED_STATUS
                    THEN {} ELSE locations_checked
              /\ pc' = IF HookStatus(hook_ok, game_id, stage_name) = CONNECTION_CONNECTED_STATUS
                       THEN "loop"
                       ELSE IF hook_ok THEN "sleep5" ELSE "disconnect"
              /\ UNCHANGED server_slot
          [] pc = "disconnect" ->
              \* ctx.disconnect() returns: await asyncio.sleep(5)
              /\ server_slot' = FALSE
              /\ pc' = "sleep5"
              /\ UNCHANGED <<dolphin_status, hooked, locations_checked>>
          [] OTHER ->
              /\ pc' = "loop"
              /\ UNCHANGED <<dolphin_status, hooked, server_slot, locations_checked>>
    /\ ev' = "none"
    /\ UNCHANGED <<expected_idx, give_pos, give_list, give_alias>>
    /\ UNCHANGED <<items_received_2, last_rcvd_index, has_send_death>>
    /\ UNCHANGED <<death_link, last_death_link, finished_game, checked_locations, exit_event>>
    /\ UNCHANGED <<gameVars, now, server_checked, histVars>>
    /\ UNCHANGED genVars

\* except Exception: the handler, reached from any step that reads or
\* writes game memory (or calls hook()) and from the awaited sends.
FaultPcs ==
    {"hook", "check_death", "give_items", "give_loop", "write_idx", "check_locations",
     "death_send", "goal_send", "checks_send"}

HandlerStatus == CONNECTION_LOST_STATUS

\* variant: the handler does not call un_hook()
HandlerHooked_Kept == hooked

\* dolphin_memory_engine.un_hook() in the handler
HandlerHooked == FALSE

\* the ids the scan of check_locations had added when it raised after n
\* entries: in the reads before the loop (none), or at an entry that reads
\* game memory or whose assertion fails
ScanRaisedAfter(n) ==
    /\ n = 0 \/ MayRaise(LOCATION_TABLE[n + 1], curr_stage_id)
    /\ ScanReaches(n, curr_stage_id)
    /\ ~ShouldSendGoal(GoalFound(CheckedEntries(n, curr_stage_id, LocationMemory)), finished_game)

Fault ==
    /\ pc \in FaultPcs
    /\ hooked' = HandlerHooked
    /\ dolphin_status' = HandlerStatus
    \* await ctx.disconnect()
    /\ pc' = "disconnect"
    /\ ev' = "exception"
    /\ IF pc = "check_locations"
       THEN \E n \in 0..(Len(LOCATION_TABLE) - 1) :
               /\ ScanRaisedAfter(n)
               /\ locations_checked' = locations_checked \cup
                     NewlyCheckedIds(CheckedEntries(n, curr_stage_id, LocationMemory))
       ELSE UNCHANGED locations_checked
    /\ give_pos' = 1
    /\ give_list' = <<>>
    /\ give_alias' = TRUE
    /\ UNCHANGED <<expected_idx, items_received_2, last_rcvd_index, has_send_death>>
    /\ UNCHANGED <<server_slot, death_link, tag_update, last_death_link, finished_game,
                   checked_locations, exit_event>>
    /\ UNCHANGED <<gameVars, now, server_checked, histVars>>
    /\ UNCHANGED genVars

(***************************************************************************)
(* The steps of a pass that read or write game memory: check_ingame and    *)
(* the reads at the start of check_death, give_items and check_locations,  *)
(* the slot reads and the slot write of _give_item, and the counter write. *)
(* A memory operation of an engine that is not hooked raises, so that such *)
(* a step is taken only while hooked (otherwise the handler follows).      *)
(***************************************************************************)
\* the list object the for loop iterates
LoopList == IF give_alias THEN items_received_2 ELSE give_list

TouchesMemory ==
    \/ pc \in {"check_death", "give_items", "write_idx", "check_locations"}
    \/ pc = "give_loop" /\ NextGivePos(LoopList, give_pos, expected_idx) <= Len(LoopList)

(***************************************************************************)
(* check_death                                                             *)
(***************************************************************************)
CheckDeath ==
    /\ pc \in {"check_death", "death_send"}
    /\ TouchesMemory => hooked
    /\ tag_update' = AfterResume
    /\ IF pc = "check_death" /\ check_ingame(stage_name)
       THEN IF IsDead(read_short(mem_health))
            THEN IF ShouldSendDeath(has_send_death, now, last_death_link)
                 THEN /\ has_send_death' = TRUE
                      \* ctx.send_death sets last_death_link and sends the Bounce
                      /\ last_death_link' = now
                      /\ ev' = "death"
                      /\ pc' = "death_send"
                 ELSE /\ pc' = "give_items"
                      /\ ev' = "none"
                      /\ UNCHANGED <<has_send_death, last_death_link>>
            ELSE /\ has_send_death' = FALSE
                 /\ pc' = "give_items"
                 /\ ev' = "none"
                 /\ UNCHANGED last_death_link
       ELSE /\ pc' = "give_items"
            /\ ev' = "none"
            /\ UNCHANGED <<has_send_death, last_death_link>>
    /\ UNCHANGED <<expected_idx, give_pos, give_list, give_alias>>
    /\ UNCHANGED <<dolphin_status, items_received_2, last_rcvd_index>>
    /\ UNCHANGED <<server_slot, death_link, finished_game, locations_checked,
                   checked_locations, exit_event>>
    /\ UNCHANGED <<hooked, gameVars, now, server_checked, histVars>>
    /\ UNCHANGED genVars

(***************************************************************************)
(* give_items, with _give_item                                             *)
(***************************************************************************)
GiveItems ==
    /\ pc \in {"give_items", "give_loop", "give_wait", "write_idx"}
    /\ TouchesMemory => hooked
    /\ Resumable
    /\ tag_update' = AfterResume
    /\ CASE pc = "give_items" ->
              IF check_ingame(stage_name)
              THEN /\ expected_idx' = read_short(mem_expected)
                   /\ pass_written' = {}
                   /\ pc' = "give_loop"
                   /\ ev' = "none"
                   /\ UNCHANGED <<give_pos, give_list, give_alias, itemMem, last_writes>>
              ELSE /\ pc' = "check_locations"
                   /\ ev' = "none"
                   /\ UNCHANGED <<expected_idx, pass_written, give_pos, give_list,
                                  give_alias, itemMem, last_writes>>
          [] pc = "give_wait" ->
              \* the sleep is over: the while loop calls _give_item again
              /\ pc' = "give_loop"
              /\ ev' = "none"
              /\ UNCHANGED <<expected_idx, pass_written, give_pos, give_list,
                             give_alias, itemMem, last_writes>>
          [] pc = "give_loop" ->
              LET pos == NextGivePos(LoopList, give_pos, expected_idx)
                  slot == FirstFreeSlot(give_array)
              IN  IF pos > Len(LoopList)
                  THEN \* the for loop is over
                       /\ pc' = "check_locations"
                       /\ ev' = "none"
                       /\ give_pos' = 1
                       /\ give_list' = <<>>
                       /\ give_alias' = TRUE
                       /\ UNCHANGED <<expected_idx, pass_written, itemMem, last_writes>>
                  ELSE IF slot >= 0
                  THEN \* _give_item wrote the item and returned True
                       /\ give_array' = [give_array EXCEPT ![slot] = GameItemId(LoopList[pos].item)]
                       /\ give_pos' = pos
                       /\ pc' = "write_idx"
                       /\ ev' = "write"
                       /\ last_writes' = <<last_writes[2], LoopList[pos].index>>
                       /\ pass_written' = pass_written \cup {LoopList[pos].index}
                       /\ UNCHANGED <<expected_idx, give_list, give_alias, mem_expected>>
                  ELSE \* _give_item returned False: await asyncio.sleep(0.01)
                       /\ give_pos' = pos
                       /\ pc' = "give_wait"
                       /\ ev' = "none"
                       /\ UNCHANGED <<expected_idx, pass_written, give_list, give_alias,
                                      itemMem, last_writes>>
          [] OTHER ->
              /\ mem_expected' = to_bytes_2(NextExpected(LoopList[give_pos].index))
              /\ give_pos' = give_pos + 1
              /\ pc' = "give_loop"
              /\ ev' = "none"
              /\ UNCHANGED <<expected_idx, pass_written, give_list, give_alias,
                             give_array, last_writes>>
    /\ UNCHANGED <<dolphin_status, items_received_2, last_rcvd_index, has_send_death>>
    /\ UNCHANGED <<server_slot, death_link, last_death_link, finished_game,
                   locations_checked, checked_locations, exit_event>>
    /\ UNCHANGED <<hooked, game_id, stage_name, mem_health, locMem, now, server_checked>>
    /\ UNCHANGED <<msg_locs, goal_msgs>>
    /\ UNCHANGED genVars

(***************************************************************************)
(* check_locations                                                         *)
(***************************************************************************)
\* the end of the pass: the LocationChecks message, if any
SendChecks(local) ==
    IF ChecksToSend(local, checked_locations) # {}
    THEN /\ ev' = "checks"
         /\ msg_locs' = ChecksToSend(local, checked_locations)
         /\ server_checked' = server_checked \cup ChecksToSend(local, checked_locations)
         /\ pc' = "checks_send"
    ELSE /\ ev' = "none"
         /\ pc' = "tick"
         /\ UNCHANGED <<msg_locs, server_checked>>

CheckLocations ==
    /\ pc \in {"check_locations", "goal_send", "checks_send"}
    /\ TouchesMemory => hooked
    /\ tag_update' = AfterResume
    /\ CASE pc = "check_locations" ->
              LET entries == CheckedEntries(Len(LOCATION_TABLE), curr_stage_id, LocationMemory)
                  local == locations_checked \cup NewlyCheckedIds(entries)
              IN  /\ ScanReaches(Len(LOCATION_TABLE), curr_stage_id)
                  /\ locations_checked' = local
                  /\ IF ShouldSendGoal(GoalFound(entries), finished_game)
                     THEN \* await ctx.send_msgs([StatusUpdate CLIENT_GOAL])
                          /\ ev' = "goal"
                          /\ goal_msgs' = IF goal_msgs < 2 THEN goal_msgs + 1 ELSE goal_msgs
                          /\ pc' = "goal_send"
                          /\ UNCHANGED <<finished_game, msg_locs, server_checked>>
                     ELSE /\ SendChecks(local)
                          /\ UNCHANGED <<finished_game, goal_msgs>>
          [] pc = "goal_send" ->
              /\ finished_game' = TRUE
              /\ SendChecks(locations_checked)
              /\ UNCHANGED <<locations_checked, goal_msgs>>
          [] OTHER ->
              /\ pc' = "tick"
              /\ ev' = "none"
              /\ UNCHANGED <<locations_checked, finished_game, msg_locs, server_checked, goal_msgs>>
    /\ UNCHANGED <<expected_idx, give_pos, give_list, give_alias>>
    /\ UNCHANGED ctxVars
    /\ UNCHANGED <<server_slot, death_link, last_death_link, checked_locations, exit_event>>
    /\ UNCHANGED <<hooked, gameVars, now, last_writes, pass_written>>
    /\ UNCHANGED genVars


(***************************************************************************)
(* The network: the host framework's receive loop runs only while the sync *)
(* task is suspended.  The framework sets its own fields (slot, the        *)
(* acknowledged locations, last_death_link) and then calls the client's    *)
(* handler.                                                                *)
(***************************************************************************)
\* on_package("Connected"): "absent" when slot_data has no death_link key
DeathLinkSlotData == {"absent", "on", "off"}

\* the tags after update_death_link(bool(slot_data["death_link"]))
ConnectedTags(tag, slot_data) == IF slot_data = "absent" THEN tag ELSE slot_data = "on"

\* Utils.async_start(self.update_death_link(...)): the task is started, and
\* runs after on_package has returned (a task that leaves the tags as they
\* are is not kept)
StartedUpdate(tag, slot_data) ==
    IF ConnectedTags(tag, slot_data) = tag
    THEN NoUpdate
    ELSE [started |-> TRUE, death_link |-> ConnectedTags(tag, slot_data), overtaken |-> FALSE]

RecvConnected ==
    /\ pc \in SuspendPcs
    /\ ~server_slot
    /\ ~tag_update.started
    /\ \E dl \in DeathLinkSlotData :
        tag_update' = StartedUpdate(death_link, dl)
    /\ server_slot' = TRUE
    /\ checked_locations' = server_checked
    \* self.items_received_2 = []: a new list; a for loop in progress keeps the old one
    /\ items_received_2' = <<>>
    /\ last_rcvd_index' = 0 - 1
    /\ IF pc = "give_wait" /\ give_alias
       THEN give_list' = items_received_2 /\ give_alias' = FALSE
       ELSE UNCHANGED <<give_list, give_alias>>
    /\ ev' = "none"
    /\ UNCHANGED <<pc, expected_idx, give_pos, dolphin_status, has_send_death>>
    /\ UNCHANGED <<death_link, last_death_link, finished_game, locations_checked, exit_event>>
    /\ UNCHANGED <<hooked, gameVars, now, server_checked, histVars>>
    /\ UNCHANGED genVars

\* the update_death_link task runs: it sets or removes the DeathLink tag
UpdateDeathLink ==
    /\ pc \in SuspendPcs
    /\ tag_update.started
    /\ death_link' = tag_update.death_link
    /\ tag_update' = NoUpdate
    /\ ev' = "none"
    /\ UNCHANGED <<syncVars, ctxVars>>
    /\ UNCHANGED <<server_slot, last_death_link, finished_game, locations_checked,
                   checked_locations, exit_event>>
    /\ UNCHANGED <<hooked, gameVars, now, server_checked, histVars>>
    /\ UNCHANGED genVars

\* on_package("ReceivedItems"): a packet carries items index .. index+n-1 of
\* the server's list
PacketItems(index, n) == [k \in 1..n |-> ServerItem(index + k - 1)]

RecvItems ==
    /\ pc \in SuspendPcs
    /\ server_slot
    /\ \E index \in 0..(MaxItems - 1) : \E n \in 1..(MaxItems - index) :
        /\ items_received_2' = ReceivedItemsList(items_received_2, last_rcvd_index,
                                                 index, PacketItems(index, n))
        /\ last_rcvd_index' = ReceivedItemsLast(last_rcvd_index, index, PacketItems(index, n))
    /\ ev' = "none"
    /\ UNCHANGED <<pc, expected_idx, give_pos, give_list, give_alias>>
    /\ UNCHANGED <<dolphin_status, has_send_death>>
    /\ UNCHANGED commonVars
    /\ UNCHANGED <<hooked, gameVars, now, server_checked, histVars>>
    /\ UNCHANGED genVars

\* RoomUpdate: the framework adds the locations the server acknowledges
RecvRoomUpdate ==
    /\ pc \in SuspendPcs
    /\ server_slot
    /\ ~(server_checked \subseteq checked_locations)
    /\ checked_locations' = checked_locations \cup server_checked
    /\ ev' = "none"
    /\ UNCHANGED <<syncVars, ctxVars>>
    /\ UNCHANGED <<server_slot, death_link, tag_update, last_death_link, finished_game,
                   locations_checked, exit_event>>
    /\ UNCHANGED <<hooked, gameVars, now, server_checked, histVars>>
    /\ UNCHANGED genVars

\* the connection to the server is lost
ServerDrop ==
    /\ pc \in SuspendPcs
    /\ server_slot
    /\ server_slot' = FALSE
    /\ ev' = "none"
    /\ UNCHANGED <<syncVars, ctxVars>>
    /\ UNCHANGED <<death_link, tag_update, last_death_link, finished_game, locations_checked,
                   checked_locations, exit_event>>
    /\ UNCHANGED <<hooked, gameVars, now, server_checked, histVars>>
    /\ UNCHANGED genVars

\* _give_death's condition
CanGiveDeath(slot, is_hooked, status, stage) ==
    slot /\ is_hooked /\ status = CONNECTION_CONNECTED_STATUS /\ check_ingame(stage)

\* on_deathlink: the framework records the time, then _give_death
RecvDeathLink ==
    /\ pc \in SuspendPcs
    /\ server_slot
    /\ death_link
    /\ last_death_link' = IF now > last_death_link THEN now ELSE last_death_link
    /\ IF CanGiveDeath(server_slot, hooked, dolphin_status, stage_name)
       THEN has_send_death' = TRUE /\ mem_health' = to_bytes_2(0)
       ELSE UNCHANGED <<has_send_death, mem_health>>
    /\ ev' = "none"
    /\ UNCHANGED <<syncVars, dolphin_status, items_received_2, last_rcvd_index>>
    /\ UNCHANGED <<server_slot, death_link, tag_update, finished_game, locations_checked,
                   checked_locations, exit_event>>
    /\ UNCHANGED <<hooked, game_id, stage_name, itemMem, locMem, now, server_checked, histVars>>
    /\ UNCHANGED genVars

(***************************************************************************)
(* The game and the emulator, which run on their own.                      *)
(***************************************************************************)
\* the game takes an item out of a give-item slot
GameConsume ==
    /\ \E i \in 0..(ActiveSlots - 1) :
        /\ give_array[i] # FREE_SLOT
        /\ give_array' = [give_array EXCEPT ![i] = FREE_SLOT]
    /\ ev' = "none"
    /\ UNCHANGED <<syncVars, ctxVars, commonVars, hooked>>
    /\ UNCHANGED <<game_id, stage_name, mem_health, mem_expected, locMem>>
    /\ UNCHANGED <<now, server_checked, histVars>>
    /\ UNCHANGED genVars

\* the player enters or leaves a save
GameStage ==
    /\ \E s \in StageNames : s # stage_name /\ stage_name' = s
    /\ ev' = "none"
    /\ UNCHANGED <<syncVars, ctxVars, commonVars, hooked>>
    /\ UNCHANGED <<game_id, mem_health, itemMem, locMem>>
    /\ UNCHANGED <<now, server_checked, histVars>>
    /\ UNCHANGED genVars

\* the player's health changes
GameHealth ==
    /\ \E h \in HealthValues : h # mem_health /\ mem_health' = h
    /\ ev' = "none"
    /\ UNCHANGED <<syncVars, ctxVars, commonVars, hooked>>
    /\ UNCHANGED <<game_id, stage_name, itemMem, locMem>>
    /\ UNCHANGED <<now, server_checked, histVars>>
    /\ UNCHANGED genVars

\* the player moves to another stage, opens a chest, hits a switch, or the
\* mail flags advance
SetBit(bitfield, bit) == IF BitOf(bitfield, bit) = 1 THEN bitfield ELSE bitfield + Pow2(bit)

GameFlags ==
    /\ \E what \in {"stage", "chest", "sea_alt", "switch", "mail"} : \E b \in 0..1 :
        CASE what = "stage" ->
              /\ \E id \in StageIds : id # curr_stage_id /\ curr_stage_id' = id
              /\ UNCHANGED <<chests_bitfield, sea_alt_bitfield, switches_bitfield, mail_byte>>
          [] what = "chest" ->
              /\ BitOf(chests_bitfield, b) = 0
              /\ chests_bitfield' = SetBit(chests_bitfield, b)
              /\ UNCHANGED <<curr_stage_id, sea_alt_bitfield, switches_bitfield, mail_byte>>
          [] what = "sea_alt" ->
              /\ BitOf(sea_alt_bitfield, 1) = 0
              /\ sea_alt_bitfield' = SetBit(sea_alt_bitfield, 1)
              /\ UNCHANGED <<curr_stage_id, chests_bitfield, switches_bitfield, mail_byte>>
          [] what = "switch" ->
              /\ BitOf(switches_bitfield, 0) = 0
              /\ switches_bitfield' = SetBit(switches_bitfield, 0)
              /\ UNCHANGED <<curr_stage_id, chests_bitfield, sea_alt_bitfield, mail_byte>>
          [] OTHER ->
              /\ mail_byte < 3
              /\ mail_byte' = SetBit(mail_byte, b)
              /\ UNCHANGED <<curr_stage_id, chests_bitfield, sea_alt_bitfield, switches_bitfield>>
    /\ ev' = "none"
    /\ UNCHANGED <<syncVars, ctxVars, commonVars, hooked>>
    /\ UNCHANGED <<game_id, stage_name, mem_health, itemMem>>
    /\ UNCHANGED <<now, server_checked, histVars>>
    /\ UNCHANGED genVars

\* another ROM is loaded (while the client is not hooked)
LoadRom ==
    /\ ~hooked
    /\ \E g \in GameIds : g # game_id /\ game_id' = g
    /\ ev' = "none"
    /\ UNCHANGED <<syncVars, ctxVars, commonVars, hooked>>
    /\ UNCHANGED <<stage_name, mem_health, itemMem, locMem>>
    /\ UNCHANGED <<now, server_checked, histVars>>
    /\ UNCHANGED genVars

\* the memory engine loses its hook (the emulator went away)
HookLost ==
    /\ hooked
    /\ hooked' = FALSE
    /\ ev' = "none"
    /\ UNCHANGED <<syncVars, ctxVars, commonVars, gameVars>>
    /\ UNCHANGED <<now, server_checked, histVars>>
    /\ UNCHANGED genVars

\* a second passes
Tick ==
    /\ pc \in SuspendPcs
    /\ now < MaxTime
    /\ now' = now + 1
    /\ ev' = "none"
    /\ UNCHANGED <<syncVars, ctxVars, commonVars, hooked, gameVars>>
    /\ UNCHANGED <<server_checked, histVars>>
    /\ UNCHANGED genVars

\* the user closes the client
SetExit ==
    /\ pc \in SuspendPcs
    /\ ~exit_event
    /\ exit_event' = TRUE
    /\ ev' = "none"
    /\ UNCHANGED <<syncVars, ctxVars, hooked, gameVars>>
    /\ UNCHANGED <<server_slot, death_link, tag_update, last_death_link, finished_game,
                   locations_checked, checked_locations>>
    /\ UNCHANGED <<now, server_checked, histVars>>
    /\ UNCHANGED genVars

(***************************************************************************)
(* get_pool_core, by its blocks.                                           *)
(***************************************************************************)
\* raise: generation ends
GenFail(error) == [gen EXCEPT !.error = error, !.pc = "error"]

GetPoolCore ==
    /\ gpc \in {"get_pool_core", "place", "sword", "better_filler", "fill"}
    /\ CASE gpc = "get_pool_core" ->
              \* lines 97-113: the three pools
              /\ gen' = [gen EXCEPT
                            !.progression_pool = SplitPool("progression", options, 1, Len(ITEM_ROWS)),
                            !.pool = <<>>,
                            !.precollected_items = <<>>,
                            !.pc = "place"]
              \* useful_pool and filler_pool are locals until lines 134-135
              /\ UNCHANGED <<world, multiworld, py_random, first_run>>
         [] gpc = "place" ->
              \* lines 115-135: the locations left, the check, the progression items
              IF InsufficientLocations(progression_pool, num_locations - 1 - Len(DungeonItems))
              THEN /\ gen' = [GenFail("FillError") EXCEPT
                                !.num_items_left_to_place = num_locations - 1 - Len(DungeonItems)]
                   /\ UNCHANGED <<world, multiworld, py_random, first_run>>
              ELSE /\ gen' = [gen EXCEPT
                                !.pool = pool \o progression_pool,
                                !.num_items_left_to_place =
                                    num_locations - 1 - Len(DungeonItems) - Len(progression_pool),
                                !.pc = "sword"]
                   /\ LET useful == SplitPool("useful", options, 1, Len(ITEM_ROWS))
                           filler == SplitPool("filler", options, 1, Len(ITEM_ROWS))
                       IN  /\ world' = [world EXCEPT
                                !.useful_pool = random_shuffle(useful, mw_random),
                                !.filler_pool = random_shuffle(filler,
                                                    ShuffleState(useful, mw_random))]
                           /\ multiworld' = [multiworld EXCEPT
                                !.random = ShuffleState(filler, ShuffleState(useful, mw_random))]
                   /\ UNCHANGED <<py_random, first_run>>
         [] gpc = "sword" ->
              \* lines 137-146
              /\ gen' = [gen EXCEPT
                            !.pool = SwordPool(options.sword_mode, pool),
                            !.precollected_items =
                                precollected_items \o SwordPrecollected(options.sword_mode),
                            !.num_items_left_to_place =
                                num_items_left_to_place + SwordsRemoved(options.sword_mode, pool),
                            !.pc = "better_filler"]
              /\ UNCHANGED <<world, multiworld, py_random, first_run>>
         [] gpc = "better_filler" ->
              \* lines 148-233; list.remove raises ValueError for an absent item
              IF options.better_filler = "standard_filler"
              THEN /\ gen' = [gen EXCEPT !.pc = "fill"]
                   /\ first_run' = IF run = 1 THEN [first_run EXCEPT !.filler = filler_pool]
                                   ELSE first_run
                   /\ UNCHANGED <<world, multiworld, py_random>>
              ELSE IF FirstAbsent(filler_pool, ChartsRemoved(options)) # 0
              THEN \* the charts before the absent one have been removed
                   /\ gen' = GenFail("ValueError")
                   /\ world' = [world EXCEPT
                                !.filler_pool = RemoveEach(filler_pool,
                                    SubSeq(ChartsRemoved(options), 1,
                                           FirstAbsent(filler_pool, ChartsRemoved(options)) - 1),
                                    1, Len(filler_pool))]
                   /\ UNCHANGED <<multiworld, py_random, first_run>>
              ELSE /\ world' = [world EXCEPT
                                !.filler_pool = BetterFillerPool(options, filler_pool, py_random)]
                   /\ py_random' = ChoicesState(better_filler_count(options), py_random)
                   /\ first_run' = IF run = 1
                                   THEN [first_run EXCEPT !.filler = world'.filler_pool]
                                   ELSE first_run
                   /\ gen' = [gen EXCEPT !.pc = "fill"]
                   /\ UNCHANGED multiworld
         [] gpc = "fill" ->
              \* lines 235-238: get_filler_item_name, num_items_left_to_place times
              /\ gen' = [gen EXCEPT
                            !.pool = pool \o FillerNames(useful_pool, filler_pool,
                                                         num_items_left_to_place, mw_random),
                            !.pc = "returned"]
              /\ world' = [world EXCEPT
                            !.useful_pool = PoppedFrom(useful_pool, num_items_left_to_place),
                            !.filler_pool = PoppedFrom(filler_pool,
                                                num_items_left_to_place - Len(useful_pool))]
              /\ multiworld' = [multiworld EXCEPT
                            !.random = ChoicesState(
                                FillerDraws(useful_pool, filler_pool, num_items_left_to_place),
                                mw_random)]
              /\ first_run' = IF run = 1 THEN [first_run EXCEPT !.pool = gen'.pool] ELSE first_run
              /\ UNCHANGED py_random
    /\ UNCHANGED clientVars

(***************************************************************************)
(* handle_dungeon_items, as a function of what it reads and writes: the    *)
(* locals of the call (st.gen), the world and the multiworld.              *)
(***************************************************************************)
\* the option that governs a dungeon item of the world
OptionOfItem(name) == DungeonItemOption(ITEM_TABLE[name].type, options)

NotLocal(name) == name \notin dungeon_local_item_names

\* item.classification = IC.filler for the items of banned dungeons
Reclassified(item, banned, marked) ==
    IF DungeonOf(item) \in banned THEN marked \cup {item} ELSE marked

\* lines 252-258: the list and the start of the reverse loop
DungeonStart(st) ==
    LET Kept(name) == name \notin st.world.dungeon_local_item_names
    IN  [st EXCEPT !.gen.dungeon_items = SelectSeq(DungeonItems, Kept),
                   !.gen.x = Len(SelectSeq(DungeonItems, Kept)),
                   !.gen.pc = "dungeon_loop"]

\* lines 259-284: one passage of the loop, for dungeon_items[x]
DungeonPassage(st) ==
    LET item == st.gen.dungeon_items[st.gen.x]
        useful == st.world.useful_pool
        filler == st.world.filler_pool
        marked == [st EXCEPT !.multiworld.reclassified =
                        Reclassified(item, st.world.banned_dungeons, @)]
    IN  CASE DungeonItemOption(ITEM_TABLE[item].type, st.world.options) = "startwith" ->
               LET pushed == [marked EXCEPT
                        !.gen.dungeon_items = PopAt(@, st.gen.x),
                        !.multiworld.precollected_items = Append(@, item),
                        !.multiworld.random = ChoicesState(FillerDraws(useful, filler, 1), @),
                        !.world.useful_pool = PoppedFrom(useful, 1),
                        !.world.filler_pool = PoppedFrom(filler, 1 - Len(useful))]
                   name == FillerNames(useful, filler, 1, st.multiworld.random)
               IN  IF UnknownItems(name) # {}
                   THEN [pushed EXCEPT !.gen.error = "Exception", !.gen.pc = "error"]
                   ELSE [pushed EXCEPT !.gen.x = @ - 1,
                                       !.multiworld.itempool = @ \o name]
          [] DungeonItemOption(ITEM_TABLE[item].type, st.world.options) = "vanilla" ->
               IF FirstFreeLocation(item, st.multiworld.location_item) = 0
               THEN [marked EXCEPT !.gen.error = "FillError", !.gen.pc = "error"]
               ELSE [marked EXCEPT
                        !.gen.dungeon_items = PopAt(@, st.gen.x),
                        !.gen.x = @ - 1,
                        !.multiworld.location_item[VANILLA_DUNGEON_ITEM_LOCATIONS[item]
                            [FirstFreeLocation(item, st.multiworld.location_item)]] = item]
          [] OTHER -> [marked EXCEPT !.gen.x = @ - 1]

\* the states of the loop, from its start to its end or to the raise
RECURSIVE DungeonStates(_)
DungeonStates(st) ==
    IF st.gen.pc = "error" \/ st.gen.x = 0 THEN <<st>>
    ELSE <<st>> \o DungeonStates(DungeonPassage(st))

\* the call: the loop, then line 286 unless the loop raised
HandleDungeonItems(st) ==
    LET end == DungeonStates(DungeonStart(st))[Len(DungeonStates(DungeonStart(st)))]
    IN  IF end.gen.pc = "error" THEN end
        ELSE [end EXCEPT !.multiworld.itempool = @ \o end.gen.dungeon_items,
                         !.gen.pc = "done"]

(***************************************************************************)
(* generate_itempool, from the return of get_pool_core to its own return:  *)
(* the precollected items, the Victory item, the shuffled pool, and the    *)
(* call of handle_dungeon_items.  item_factory raises Exception for a name *)
(* ITEM_TABLE lacks.                                                       *)
(***************************************************************************)
\* the first entry item_factory raises for (0: none)
FirstUnknown(items) ==
    IF UnknownItems(items) = {} THEN 0
    ELSE CHOOSE k \in UnknownItems(items) : \A j \in UnknownItems(items) : k <= j

\* lines 72-84, when no name is unknown: the state handle_dungeon_items is called in
BeforeDungeonItems ==
    [gen |-> gen,
     world |-> world,
     multiworld |-> [multiworld EXCEPT
                        !.precollected_items = mw_precollected \o precollected_items,
                        !.location_item["Defeat Ganondorf"] = "Victory",
                        !.itempool = itempool \o random_shuffle(pool, mw_random),
                        !.random = ShuffleState(pool, mw_random)]]

GenerateItempool ==
    /\ gpc = "returned"
    /\ IF FirstUnknown(precollected_items) # 0
       THEN /\ gen' = GenFail("Exception")
            /\ multiworld' = [multiworld EXCEPT
                    !.precollected_items = mw_precollected \o
                        SubSeq(precollected_items, 1, FirstUnknown(precollected_items) - 1)]
            /\ UNCHANGED world
       ELSE IF UnknownItems(pool) # {}
       THEN /\ gen' = GenFail("Exception")
            /\ multiworld' = [multiworld EXCEPT
                    !.precollected_items = mw_precollected \o precollected_items,
                    !.location_item["Defeat Ganondorf"] = "Victory"]
            /\ UNCHANGED world
       ELSE /\ gen' = HandleDungeonItems(BeforeDungeonItems).gen
            /\ world' = HandleDungeonItems(BeforeDungeonItems).world
            /\ multiworld' = HandleDungeonItems(BeforeDungeonItems).multiworld
    /\ UNCHANGED <<py_random, first_run>>
    /\ UNCHANGED clientVars

(***************************************************************************)
(* The same world is generated again, with the same options and the same   *)
(* seed, by a new process: the world and the multiworld are built anew,    *)
(* multiworld.random is seeded anew, and the random module's own           *)
(* generator is in whatever state it starts in.                            *)
(***************************************************************************)
Regenerate ==
    /\ run = 1
    /\ gpc \in {"done", "error"}
    /\ gen' = NewGen("get_pool_core", 2)
    /\ world' = NewWorld(options, num_locations, occupied)
    /\ multiworld' = NewMultiworld(seed, GenLocations, occupied)
    /\ py_random' \in 0..MaxSeed
    /\ UNCHANGED first_run
    /\ UNCHANGED clientVars

(***************************************************************************)
(* set_rules, one call of set_rule a step.  Here gen holds the position in *)
(* set_rules (k, the next call), and multiworld the locations passed to    *)
(* set_rule so far, in the order of the calls, and the completion          *)
(* condition.                                                              *)
(***************************************************************************)
set_rule_calls == multiworld.set_rule_calls

InitRules ==
    /\ ClientInit
    /\ game_id = GAME_ID
    /\ stage_name = "sea"
    /\ mem_expected = to_bytes_2(0)
    /\ gen = [pc |-> "set_rules", run |-> 1, error |-> "none", k |-> 1]
    /\ world = NewWorld(NoOptions, Len(RULE_ROWS), {})
    /\ multiworld = [set_rule_calls |-> <<>>, completion_condition |-> FALSE]
    /\ py_random = 0
    /\ first_run = [filler |-> <<>>, pool |-> <<>>]

SetRules ==
    /\ gpc = "set_rules"
    /\ IF gen.k > Len(RULE_ROWS)
       THEN \* line 1660: the completion condition
            /\ multiworld' = [multiworld EXCEPT !.completion_condition = TRUE]
            /\ gen' = [gen EXCEPT !.pc = "rules_set"]
       ELSE /\ multiworld' = [multiworld EXCEPT
                                !.set_rule_calls = Append(@, RuleLocation(gen.k))]
            /\ gen' = [gen EXCEPT !.k = gen.k + 1]
    /\ UNCHANGED <<world, py_random, first_run>>
    /\ UNCHANGED clientVars

(***************************************************************************)
(* Specifications.  Every one runs the whole sync task; they differ in     *)
(* what the world outside does.                                            *)
(***************************************************************************)
SyncNext == Main \/ SyncTask \/ CheckDeath \/ GiveItems \/ CheckLocations

\* item delivery: the server connects, drops and sends items, the game
\* enters and leaves the save and consumes items; no memory operation fails
NextItems ==
    SyncNext \/ RecvConnected \/ UpdateDeathLink \/ RecvItems \/ ServerDrop \/ GameStage \/ GameConsume

SpecItems == Init /\ [][NextItems]_vars

\* the same, with the sync task scheduled whenever it can run (the event
\* loop resumes a task whose sleep is over); nothing obliges the game or
\* the server to act
FairItems == SpecItems /\ WF_vars(SyncNext) /\ WF_vars(UpdateDeathLink)

\* the connection: the server connects and drops, the player enters and
\* leaves the save, another ROM is loaded, memory operations raise, the
\* memory engine loses its hook, the user closes the client
Next ==
    \/ SyncNext \/ Fault \/ HookLost \/ LoadRom \/ RecvConnected \/ UpdateDeathLink
    \/ ServerDrop \/ GameStage \/ SetExit

Spec == Init /\ [][Next]_vars

\* exceptions during item delivery: the server connects and sends items,
\* memory operations raise, the memory engine loses its hook, the user closes
\* the client
NextFault ==
    SyncNext \/ Fault \/ HookLost \/ RecvConnected \/ UpdateDeathLink \/ RecvItems \/ SetExit

SpecFault == Init /\ [][NextFault]_vars

\* locations: the server connects, drops and acknowledges, the game sets flags
NextLoc ==
    \/ SyncNext \/ Fault \/ RecvConnected \/ UpdateDeathLink \/ RecvRoomUpdate
    \/ ServerDrop \/ GameFlags

\* the game is the randomized ROM in a loaded save, nothing delivered yet
InitLoc ==
    /\ Init
    /\ game_id = GAME_ID
    /\ check_ingame(stage_name)
    /\ mem_expected = to_bytes_2(0)

SpecLoc == InitLoc /\ [][NextLoc]_vars

\* death link: the server connects and sends deaths, the health changes, time passes
NextDeath ==
    \/ SyncNext \/ RecvConnected \/ UpdateDeathLink \/ RecvDeathLink
    \/ GameStage \/ GameHealth \/ Tick

SpecDeath == Init /\ [][NextDeath]_vars

\* the connection during item delivery: the hook is lost, memory operations
\* raise, the server connects, drops and sends items; the ROM is the
\* randomized one or another one from the start, and the game consumes
\* nothing, so that a pass that has filled the slots stays suspended in its
\* wait for a free one
NextPass ==
    \/ SyncNext \/ Fault \/ HookLost \/ RecvConnected \/ UpdateDeathLink
    \/ ServerDrop \/ RecvItems

\* the save holds nothing delivered yet
InitPass == Init /\ mem_expected = to_bytes_2(0)

SpecPass == InitPass /\ [][NextPass]_vars

\* shutdown: the server connects and sends items, the game consumes them,
\* the user closes the client; the sync task is scheduled whenever it can
\* run, and nothing obliges the game to act
NextExit == SyncNext \/ RecvConnected \/ UpdateDeathLink \/ RecvItems \/ GameConsume \/ SetExit

FairExit == Init /\ [][NextExit]_vars /\ WF_vars(SyncNext) /\ WF_vars(UpdateDeathLink)

\* generation of the item pool: every sword mode, filler mode and chart
\* classification, the dungeon items left to the fill; the world is then
\* generated a second time
NextPool == GetPoolCore \/ GenerateItempool \/ Regenerate

SpecPool == InitPool /\ [][NextPool]_vars

\* generation with every way of handling the dungeon items
NextDungeon == GetPoolCore \/ GenerateItempool

SpecDungeon == InitDungeon /\ [][NextDungeon]_vars

\* the rules: set_rules registers them
NextRules == SetRules

SpecRules == InitRules /\ [][NextRules]_vars


(***************************************************************************)
(* Vocabulary of the properties.                                           *)
(***************************************************************************)
\* the in-game expected-index counter, as give_items reads it
ExpectedCounter == read_short(mem_expected)

\* a list of [item, index] is in non-decreasing index order
SortedByIndex(list) == \A j, k \in 1..Len(list) : j < k => list[j].index <= list[k].index

\* the indices of a list
IndicesOf(list) == {list[k].index : k \in 1..Len(list)}

\* the step in which _give_item writes a slot
WriteStep == pc = "give_loop" /\ pc' = "write_idx"

\* the step in which give_items writes the counter
CounterStep == pc = "write_idx" /\ pc' = "give_loop"

\* the step in which give_items' for loop ends
PassEndStep == pc = "give_loop" /\ pc' = "check_locations"

\* the in-game id of the item the server's list holds at an index
ServerGameId(idx) == IF idx % 2 = 0 THEN 34 ELSE 254

(***************************************************************************)
(* C1.  Whatever ReceivedItems packets arrive and in whatever order, the   *)
(* pending list is sorted by index after each packet, entries are written  *)
(* to the game in strictly increasing index order, the counter is the last *)
(* written index + 1 whenever no counter write is pending, and when a pass *)
(* ends every entry of the list it iterated is below the counter, which    *)
(* then is the larger of the value the pass read and the highest index of  *)
(* the list + 1.                                                           *)
(***************************************************************************)
C1_State ==
    /\ SortedByIndex(items_received_2)
    /\ last_writes[1] >= 0 => last_writes[1] < last_writes[2]
    /\ (pc # "write_idx" /\ last_writes[2] >= 0) => ExpectedCounter = last_writes[2] + 1

C1_PassEnd ==
    PassEndStep =>
        /\ \A i \in IndicesOf(LoopList) : i < ExpectedCounter
        /\ ExpectedCounter =
              IF LoopList # <<>> /\ LoopList[Len(LoopList)].index >= expected_idx
              THEN LoopList[Len(LoopList)].index + 1
              ELSE expected_idx

C1_SortedDrain == [](C1_State) /\ [][C1_PassEnd]_vars

\* packets arrived out of order (the list starts at index 1: the packet for
\* index 0 came late and was dropped), and the pass has drained the list
C1_Witness ==
    /\ pc = "check_locations"
    /\ Len(items_received_2) = MaxItems - 1
    /\ items_received_2[1].index = 1
    /\ last_writes = <<MaxItems - 2, MaxItems - 1>>
    /\ ExpectedCounter = MaxItems

(***************************************************************************)
(* C2.  In a give_items pass that found the game in a save: a slot write   *)
(* puts the in-game id of an entry whose index is >= the expected index    *)
(* read at the start of the pass into the lowest-numbered slot holding     *)
(* 0xFF and changes no other slot; the counter write that follows sets the *)
(* counter to that entry's index + 1; the counter changes in no other      *)
(* step; and when the pass ends the indices written in it are exactly the  *)
(* indices >= that expected index in the list.  Without a save nothing is  *)
(* written.                                                                *)
(***************************************************************************)
C2_Write ==
    WriteStep =>
        LET idx == LoopList'[give_pos'].index
        IN  /\ idx >= expected_idx
            /\ \E slot \in 0..(len_give_item_array - 1) :
                /\ give_array[slot] = FREE_SLOT
                /\ \A j \in 0..(slot - 1) : give_array[j] # FREE_SLOT
                /\ give_array' = [give_array EXCEPT ![slot] = ServerGameId(idx)]
            /\ mem_expected' = mem_expected

C2_Counter ==
    /\ CounterStep => ExpectedCounter' = LoopList[give_pos].index + 1
    /\ mem_expected' # mem_expected => CounterStep
    /\ (\E i \in 0..(len_give_item_array - 1) :
            give_array'[i] # give_array[i] /\ give_array'[i] # FREE_SLOT) => WriteStep

C2_PassEnd ==
    /\ PassEndStep => pass_written = {i \in IndicesOf(LoopList) : i >= expected_idx}
    /\ (pc = "give_items" /\ ~check_ingame(stage_name)) => pc' \notin {"give_loop", "write_idx"}

C2_OnePass == [][C2_Write /\ C2_Counter /\ C2_PassEnd]_vars

\* the entry with index 0 was skipped (the save expected index 1) and the
\* entry with index 1 went into slot 1, slot 0 still holding an item
C2_Witness ==
    /\ pc = "write_idx"
    /\ expected_idx = 1
    /\ Len(LoopList) >= 2
    /\ LoopList[1].index = 0
    /\ give_pos = 2
    /\ pass_written = {1}
    /\ give_array[0] # FREE_SLOT
    /\ give_array[1] = 254

(***************************************************************************)
(* C3.  With on_package (Connected, ReceivedItems) running at any          *)
(* suspension point of the sync task: every entry written to the game has  *)
(* a larger index than the entry written before it (so none is written     *)
(* twice), and the expected-index counter never decreases.                 *)
(***************************************************************************)
C3_Step ==
    /\ WriteStep => last_writes'[2] > last_writes[2]
    /\ ExpectedCounter' >= ExpectedCounter

C3_Interleaving == [][C3_Step]_vars

\* Connected and then ReceivedItems arrived while give_items waited for a
\* free slot; the for loop went on over the old list and wrote its entry
C3_Witness ==
    /\ pc = "write_idx"
    /\ ~give_alias
    /\ items_received_2 # <<>>
    /\ last_writes[1] >= 0


(***************************************************************************)
(* C4.  An exception raised in an iteration of dolphin_sync_task is        *)
(* caught: after it Dolphin is un-hooked, dolphin_status is                *)
(* CONNECTION_LOST_STATUS and the handler waits for ctx.disconnect(); when *)
(* that returns the server session is gone and the task sleeps 5 s, from   *)
(* where it goes back to the top of the loop; the task ends only at the    *)
(* top of the loop with exit_event set.                                    *)
(***************************************************************************)
C4_Step ==
    /\ pc \in FaultPcs => ENABLED Fault
    /\ ev' = "exception" =>
          /\ ~hooked'
          /\ dolphin_status' = CONNECTION_LOST_STATUS
          /\ pc' = "disconnect"
    /\ (pc = "disconnect" /\ pc' # pc) =>
          /\ ~hooked'
          /\ dolphin_status' = CONNECTION_LOST_STATUS
          /\ ~server_slot'
          /\ pc' = "sleep5"
    /\ (pc = "sleep5" /\ pc' # pc) => pc' = "loop"
    /\ (pc' = "done" /\ pc # "done") => (pc = "loop" /\ exit_event)

C4_ExceptionCaught == [][C4_Step]_vars

\* a write_short that raised after _give_item had written the slot
C4_Witness ==
    /\ ev = "exception"
    /\ pc = "disconnect"
    /\ last_writes[2] >= 0
    /\ ExpectedCounter # last_writes[2] + 1

(***************************************************************************)
(* C5 (as stated).  Every retry is given up after a bounded number of      *)
(* steps: once the sync task waits on a full give-item array, control is   *)
(* back at the top of the loop eventually, whatever the game does.         *)
(***************************************************************************)
C5_Original == (pc = "give_wait") ~> (pc = "loop")

(***************************************************************************)
(* C5 (amended).  A hook attempt is made once per iteration and control is *)
(* then back at the top of the loop; _give_item fails, and give_items      *)
(* sleeps and retries, only while no slot of the give-item array holds     *)
(* 0xFF; and if slots keep being freed, a pass that waits reaches the      *)
(* 0.5 s tick of the loop.                                                 *)
(***************************************************************************)
ArrayFull == \A i \in 0..(len_give_item_array - 1) : give_array[i] # FREE_SLOT

C5_RetryStep == (pc = "give_loop" /\ pc' = "give_wait") => ArrayFull

C5_Amended ==
    /\ (pc = "hook") ~> (pc = "loop")
    /\ [][C5_RetryStep]_vars
    /\ ([]<>(~ArrayFull)) => ((pc = "give_wait") ~> (pc = "tick"))

\* give_items waits on a full array with an entry still to give
C5_Witness ==
    /\ pc = "give_wait"
    /\ ArrayFull
    /\ give_pos <= Len(LoopList)

(***************************************************************************)
(* C6.  dolphin_status becomes CONNECTION_CONNECTED_STATUS only in a hook  *)
(* attempt that left Dolphin hooked with the game id GZLE99 and the stage  *)
(* name of a loaded save; from CONNECTED it changes only to                *)
(* CONNECTION_LOST_STATUS; a finished hook attempt leaves it different     *)
(* from CONNECTION_INITIAL_STATUS, and once different it never is          *)
(* CONNECTION_INITIAL_STATUS again.                                        *)
(***************************************************************************)
C6_Step ==
    /\ (dolphin_status' = CONNECTION_CONNECTED_STATUS /\ dolphin_status # CONNECTION_CONNECTED_STATUS) =>
          /\ pc = "hook"
          /\ hooked'
          /\ game_id = "GZLE99"
          /\ stage_name \notin {"sea_T", "Name"}
    /\ (dolphin_status = CONNECTION_CONNECTED_STATUS /\ dolphin_status' # dolphin_status) =>
          dolphin_status' = CONNECTION_LOST_STATUS
    /\ (pc = "hook" /\ pc' # "hook") => dolphin_status' # CONNECTION_INITIAL_STATUS
    /\ dolphin_status # CONNECTION_INITIAL_STATUS => dolphin_status' # CONNECTION_INITIAL_STATUS

C6_StatusGraph == [][C6_Step]_vars

\* connected, with the server session up, asleep in the 0.5 s tick
C6_Witness ==
    /\ dolphin_status = CONNECTION_CONNECTED_STATUS
    /\ hooked
    /\ pc = "tick"
    /\ server_slot

(***************************************************************************)
(* C7.  A hook attempt that does not connect ends un-hooked, asleep for    *)
(* 5 s (after ctx.disconnect() when the hook failed), with                 *)
(* CONNECTION_LOST_STATUS (hook failed),                                   *)
(* CONNECTION_REFUSED_GAME_STATUS (only when the game id is not GZLE99) or *)
(* CONNECTION_REFUSED_SAVE_STATUS (only when the game id is right and the  *)
(* stage is not a loaded save), three different strings; after the sleep   *)
(* the loop makes a new attempt; and while the status is one of the two    *)
(* refusals Dolphin is not hooked, the task has not ended, and nothing is  *)
(* written to the give-item array or reported to the server.               *)
(***************************************************************************)
RefusedStatuses == {CONNECTION_REFUSED_GAME_STATUS, CONNECTION_REFUSED_SAVE_STATUS}

C7_Step ==
    /\ (pc = "hook" /\ pc' # "hook" /\ dolphin_status' # CONNECTION_CONNECTED_STATUS) =>
          /\ ~hooked'
          /\ pc' = IF dolphin_status' = CONNECTION_LOST_STATUS THEN "disconnect" ELSE "sleep5"
          /\ dolphin_status' \in RefusedStatuses \cup {CONNECTION_LOST_STATUS}
          /\ dolphin_status' = CONNECTION_REFUSED_GAME_STATUS => game_id # "GZLE99"
          /\ dolphin_status' = CONNECTION_REFUSED_SAVE_STATUS =>
                (game_id = "GZLE99" /\ stage_name \in {"sea_T", "Name"})
    /\ (pc = "disconnect" /\ pc' # pc) => pc' = "sleep5"
    /\ (pc = "sleep5" /\ pc' # pc) => pc' = "loop"
    /\ (pc = "loop" /\ pc' # pc /\ ~exit_event /\ dolphin_status # CONNECTION_CONNECTED_STATUS) =>
          pc' = "hook"
    /\ dolphin_status' \in RefusedStatuses =>
          /\ ~hooked'
          /\ pc' \in {"sleep5", "loop", "hook", "done"}
          /\ pc' = "done" => exit_event'
          /\ ev' \notin {"write", "checks", "goal", "death"}
          /\ mem_expected' = mem_expected

C7_Refused ==
    /\ [][C7_Step]_vars
    /\ [](Cardinality(RefusedStatuses \cup {CONNECTION_LOST_STATUS}) = 3)

\* a new attempt is about to be made after a not-in-save refusal, the player
\* having entered the save meanwhile
C7_Witness ==
    /\ pc = "hook"
    /\ dolphin_status = CONNECTION_REFUSED_SAVE_STATUS
    /\ check_ingame(stage_name)
    /\ server_slot

(***************************************************************************)
(* C8 (as stated).  The StatusUpdate/CLIENT_GOAL message is sent at most   *)
(* once: by the first check_locations pass that finds the win condition    *)
(* checked, and by no later pass.                                          *)
(***************************************************************************)
\* the win condition's flag is visible to check_locations
WinFlagVisible == curr_stage_id = 8 /\ switches_bitfield % 2 = 1

C8_Original == [](goal_msgs <= 1 /\ (finished_game => goal_msgs = 1))

(***************************************************************************)
(* C8.  The StatusUpdate/CLIENT_GOAL message is sent exactly by the        *)
(* check_locations passes that find the win condition checked with         *)
(* finished_game false; finished_game is set when such a send returns, and *)
(* stays set, so that no pass sends the message after a send that          *)
(* returned.  A send that raises leaves finished_game false, and a later   *)
(* pass sends the message again.                                           *)
(***************************************************************************)
C8_Step ==
    /\ ev' = "goal" => (pc = "check_locations" /\ WinFlagVisible /\ ~finished_game)
    /\ (pc = "check_locations" /\ pc' # pc /\ ev' # "exception" /\ WinFlagVisible /\ ~finished_game) =>
          (ev' = "goal" /\ pc' = "goal_send")
    /\ finished_game' # finished_game => (pc = "goal_send" /\ finished_game' /\ ev' # "exception")
    /\ (pc = "goal_send" /\ ev' = "exception") => ~finished_game'

C8_GoalOnce ==
    /\ [][C8_Step]_vars
    /\ [](finished_game => goal_msgs >= 1)

\* the message was sent a second time, the first send having raised, and
\* a later pass is about to run with the win flag still set
C8_Witness ==
    /\ finished_game
    /\ goal_msgs = 2
    /\ pc = "check_locations"
    /\ WinFlagVisible

(***************************************************************************)
(* C9.  When a check_locations pass ends, a LocationChecks message has     *)
(* been sent exactly if ctx.locations_checked minus ctx.checked_locations  *)
(* is not empty, and its locations are that difference; no LocationChecks  *)
(* message is sent anywhere else; and during a pass ctx.locations_checked  *)
(* loses no id.                                                            *)
(***************************************************************************)
CheckLocationsEnd ==
    /\ pc \in {"check_locations", "goal_send"}
    /\ pc' \in {"checks_send", "tick"}

C9_Step ==
    /\ CheckLocationsEnd =>
          IF locations_checked' \ checked_locations # {}
          THEN /\ ev' = "checks"
               /\ pc' = "checks_send"
               /\ msg_locs' = locations_checked' \ checked_locations
          ELSE /\ ev' # "checks"
               /\ pc' = "tick"
    /\ ev' = "checks" => CheckLocationsEnd
    /\ pc \in {"check_locations", "goal_send", "checks_send"} =>
          locations_checked \subseteq locations_checked'

C9_Delta == [][C9_Step]_vars

\* a message that leaves out a location the server has acknowledged
C9_Witness ==
    /\ ev = "checks"
    /\ pc = "checks_send"
    /\ msg_locs # {}
    /\ msg_locs # locations_checked
    /\ msg_locs = locations_checked \ checked_locations

(***************************************************************************)
(* C10.  A death-link event is sent exactly by a check_death step taken    *)
(* with the game in a save, both health bytes 0, has_send_death false and  *)
(* the clock at least 3 s past ctx.last_death_link; and check_death runs   *)
(* only with the DeathLink tag set.                                        *)
(***************************************************************************)
DeathConditions ==
    /\ pc = "check_death"
    /\ stage_name \notin {"sea_T", "Name"}
    /\ mem_health = <<0, 0>>
    /\ ~has_send_death
    /\ now - last_death_link >= 3

C10_Step ==
    /\ ev' = "death" => (DeathConditions /\ death_link)
    /\ (DeathConditions /\ pc' # pc) => (ev' = "death" /\ has_send_death' /\ last_death_link' = now)
    /\ pc' = "check_death" => death_link'

C10_DeathLink == [][C10_Step]_vars

\* a death sent 3 s after a death-link received at second 1
C10_Witness ==
    /\ ev = "death"
    /\ pc = "death_send"
    /\ now = 4
    /\ last_death_link = 4

(***************************************************************************)
(* C11.  Once exit_event is set the sync task returns: it is checked at    *)
(* the top of every iteration, an iteration that finds it set starts       *)
(* nothing and the task ends, and every iteration in progress comes back   *)
(* to the top of the loop.                                                 *)
(***************************************************************************)
C11_ExitStep == (pc = "loop" /\ exit_event /\ pc' # pc) => pc' = "done"

C11_Exit ==
    /\ [][C11_ExitStep]_vars
    /\ exit_event ~> (pc = "done")

(***************************************************************************)
(* C12 (as stated).  Handling a network packet never removes or changes an *)
(* entry of items_received_2 (the old list is a prefix of the new one),    *)
(* give_items never changes the list, and the list is sorted by index.     *)
(***************************************************************************)
IsPrefix(s, t) == Len(s) <= Len(t) /\ SubSeq(t, 1, Len(s)) = s

C12_Original ==
    /\ [][IsPrefix(items_received_2, items_received_2')]_vars
    /\ [](SortedByIndex(items_received_2))

(***************************************************************************)
(* C12 (amended).  A ReceivedItems packet only appends: the old list is a  *)
(* prefix of the new one, which is sorted; a Connected packet empties the  *)
(* list and sets last_rcvd_index to -1; no step of the sync task changes   *)
(* the list.                                                               *)
(***************************************************************************)
C12_Step ==
    /\ items_received_2' # items_received_2 =>
          \/ items_received_2' = <<>> /\ last_rcvd_index' = 0 - 1 /\ pc' = pc
          \/ /\ IsPrefix(items_received_2, items_received_2')
             /\ last_rcvd_index' > last_rcvd_index
             /\ pc' = pc
    /\ SortedByIndex(items_received_2')

C12_AppendOnly == [][C12_Step]_vars

\* a Connected packet emptied the list while give_items' for loop, waiting
\* for a free slot, goes on over the old list object; a ReceivedItems packet
\* then appended to the new one
C12_Witness ==
    /\ pc = "give_wait"
    /\ ~give_alias
    /\ give_list # <<>>
    /\ Len(items_received_2) = MaxItems


(***************************************************************************)
(* C13.  Whatever the sword mode and the better_filler option, when        *)
(* get_pool_core returns (no FillError) the pool has exactly as many       *)
(* entries as the player has locations, minus 1, minus the dungeon items   *)
(* already created; the swords taken out for start_with_sword (one) or     *)
(* swordless (all four) are made up for by as many more filler entries.    *)
(***************************************************************************)
SwordsTaken == Count(progression_pool, "Progressive Sword") - Count(pool, "Progressive Sword")

C13_PoolSize ==
    gpc = "returned" =>
        /\ gen_error = "none"
        /\ Len(pool) = num_locations - 1 - Len(DungeonItems)
        /\ SwordsTaken = (CASE options.sword_mode = "start_with_sword" -> 1
                            [] options.sword_mode = "swordless" ->
                                   ITEM_TABLE["Progressive Sword"].quantity
                            [] OTHER -> 0)
        /\ Len(pool) - (Len(progression_pool) - SwordsTaken) =
               (num_locations - 1 - Len(DungeonItems) - Len(progression_pool)) + SwordsTaken

C13_Witness ==
    /\ gpc = "returned"
    /\ options.sword_mode = "swordless"
    /\ options.better_filler = "remove_both_charts"
    /\ Len(pool) > Len(progression_pool)

(***************************************************************************)
(* C14.  get_pool_core raises FillError exactly when the progression       *)
(* items, counted with their quantities, are more than the player's        *)
(* locations minus 1 minus the dungeon items already created; generation   *)
(* then stops with nothing added to the multiworld's item pool and         *)
(* nothing precollected.                                                   *)
(***************************************************************************)
C14_FillError ==
    /\ gen_error = "FillError" =>
          /\ gpc = "error"
          /\ Len(progression_pool) > num_locations - 1 - Len(DungeonItems)
          /\ itempool = <<>>
          /\ mw_precollected = <<>>
          /\ pool = <<>>
    /\ (gpc \notin {"get_pool_core", "place"} /\ gen_error # "FillError") =>
          Len(progression_pool) <= num_locations - 1 - Len(DungeonItems)

C14_Witness ==
    /\ gen_error = "FillError"
    /\ Len(progression_pool) = num_locations - Len(DungeonItems)
    /\ options.progression_treasure_charts

(***************************************************************************)
(* C15.  In what get_pool_core produces (the returned pool and the         *)
(* precollected items together) no progressive item occurs more often     *)
(* than the quantity ITEM_TABLE declares for it, whatever the sword mode   *)
(* and the better_filler option.                                           *)
(***************************************************************************)
ProgressiveItems ==
    {"Progressive Sword", "Progressive Shield", "Progressive Picto Box", "Progressive Bow",
     "Progressive Magic Meter", "Progressive Quiver", "Progressive Bomb Bag",
     "Progressive Wallet"}

C15_Progressive ==
    gpc = "returned" =>
        \A name \in ProgressiveItems :
            Count(pool, name) + Count(precollected_items, name) <= ITEM_TABLE[name].quantity

C15_Witness ==
    /\ gpc = "returned"
    /\ options.sword_mode = "start_with_sword"
    /\ options.better_filler # "standard_filler"
    /\ Count(pool, "Progressive Sword") + Count(precollected_items, "Progressive Sword") =
           ITEM_TABLE["Progressive Sword"].quantity
    /\ Count(pool, "Progressive Bomb Bag") = ITEM_TABLE["Progressive Bomb Bag"].quantity

(***************************************************************************)
(* C16.  In swordless mode the returned pool holds no "Progressive Sword"  *)
(* and none is precollected; with start_with_sword exactly one is          *)
(* precollected and exactly one is taken out of the pool.                  *)
(***************************************************************************)
C16_Swords ==
    gpc = "returned" =>
        /\ options.sword_mode = "swordless" =>
              /\ Count(pool, "Progressive Sword") = 0
              /\ Count(precollected_items, "Progressive Sword") = 0
        /\ options.sword_mode = "start_with_sword" =>
              /\ Count(precollected_items, "Progressive Sword") = 1
              /\ Count(pool, "Progressive Sword") =
                     ITEM_TABLE["Progressive Sword"].quantity - 1

C16_Witness ==
    /\ gpc = "returned"
    /\ options.sword_mode = "swordless"
    /\ Count(progression_pool, "Progressive Sword") = ITEM_TABLE["Progressive Sword"].quantity
    /\ Count(pool, "Progressive Sword") = 0
    /\ Len(pool) = num_locations - 1 - Len(DungeonItems)

(***************************************************************************)
(* C17.  better_filler removes the treasure charts only when               *)
(* progression_treasure_charts is false: with better_filler at             *)
(* remove_treasure_charts or remove_both_charts and the option false, no   *)
(* Treasure Chart 1..41 is left in the filler pool once the better_filler  *)
(* block is over; in every other configuration the treasure charts that    *)
(* the classification put into the filler pool are all still there.        *)
(***************************************************************************)
\* the treasure charts the classification of ITEM_TABLE makes filler
FillerTreasureCharts ==
    {name \in Range(TREASURE_CHARTS) :
        PoolName(Classification(ITEM_TABLE[name], options)) = "filler"}

C17_Original ==
    gpc = "returned" =>
        IF ~options.progression_treasure_charts /\
           options.better_filler \in {"remove_treasure_charts", "remove_both_charts"}
        THEN \A name \in Range(TREASURE_CHARTS) : ~Contains(filler_pool, name)
        ELSE \A name \in FillerTreasureCharts :
                Count(filler_pool, name) = ITEM_TABLE[name].quantity

\* C17 as the code has it: the charts are all in the filler pool when the
\* better_filler block is over; get_pool_core then fills the pool out of the
\* filler pool, so that when it returns every such chart is in the filler
\* pool or in the returned pool.
C17_TreasureCharts ==
    /\ gpc = "fill" =>
          IF ~options.progression_treasure_charts /\
             options.better_filler \in {"remove_treasure_charts", "remove_both_charts"}
          THEN \A name \in Range(TREASURE_CHARTS) : ~Contains(filler_pool, name)
          ELSE \A name \in FillerTreasureCharts :
                  Count(filler_pool, name) = ITEM_TABLE[name].quantity
    /\ gpc = "returned" =>
          IF ~options.progression_treasure_charts /\
             options.better_filler \in {"remove_treasure_charts", "remove_both_charts"}
          THEN \A name \in Range(TREASURE_CHARTS) :
                  ~Contains(filler_pool, name) /\ ~Contains(pool, name)
          ELSE \A name \in FillerTreasureCharts :
                  Count(filler_pool, name) + Count(pool, name) = ITEM_TABLE[name].quantity

C17_Witness ==
    /\ gpc = "fill"
    /\ ~options.progression_treasure_charts
    /\ options.better_filler = "remove_treasure_charts"
    /\ Contains(filler_pool, "Triforce Chart 1")
    /\ ~Contains(filler_pool, "Treasure Chart 1")
    /\ Len(filler_pool) = Len(SplitPool("filler", options, 1, Len(ITEM_ROWS)))

(***************************************************************************)
(* C18.  handle_dungeon_items puts every dungeon item it handles in        *)
(* exactly one of three places, chosen by the option for its type:         *)
(* precollected for startwith, with exactly one filler item added to the   *)
(* item pool in its place; locked onto one of its vanilla locations for    *)
(* vanilla; appended to the multiworld's item pool otherwise.  The         *)
(* reverse loop with pop handles no item twice and skips none.             *)
(***************************************************************************)
\* the dungeon items the function handles
Handled == SelectSeq(DungeonItems, NotLocal)

LockedCount(name) == Cardinality({l \in GenLocations : location_item[l] = name})

\* generate_itempool is about to call handle_dungeon_items
CallsDungeonItems ==
    gpc = "returned" /\ UnknownItems(precollected_items) = {} /\ UnknownItems(pool) = {}

\* the states the loop of that call goes through
LoopStates == DungeonStates(DungeonStart(BeforeDungeonItems))

\* one filler in the item pool for every dungeon item precollected
FillerForPrecollected(st) ==
    Len(st.multiworld.itempool) - Len(st.gen.pool) =
        Len(st.multiworld.precollected_items) - Len(st.gen.precollected_items)

\* the loop raised
InDungeonLoop == gpc = "error" /\ x > 0

C18_Placement ==
    /\ InDungeonLoop => FillerForPrecollected([gen |-> gen, multiworld |-> multiworld])
    /\ CallsDungeonItems =>
          LET states == LoopStates
          IN  \A i \in 1..Len(states) : FillerForPrecollected(states[i])
    /\ gpc = "done" =>
          /\ \A name \in Range(Handled) :
                /\ Count(mw_precollected, name) =
                       (IF OptionOfItem(name) = "startwith" THEN Count(Handled, name) ELSE 0)
                /\ LockedCount(name) =
                       (IF OptionOfItem(name) = "vanilla" THEN Count(Handled, name) ELSE 0)
                /\ Count(itempool, name) =
                       (IF OptionOfItem(name) \in {"startwith", "vanilla"} THEN 0
                        ELSE Count(Handled, name))
          /\ Len(itempool) = Len(pool) +
                 Cardinality({k \in 1..Len(Handled) : OptionOfItem(Handled[k]) # "vanilla"})

\* the call has returned in a world with a location for every item of
\* ITEM_TABLE that starts with the maps and compasses, keeps the small keys
\* vanilla and shuffles the big keys: the 12 maps and compasses are
\* precollected with 12 filler items in their place, the small keys are on
\* their locations and the 5 big keys are in the item pool
C18_Witness ==
    /\ gpc = "done"
    /\ num_locations = LocationCount(options, WholeTable(options))
    /\ options.randomize_mapcompass = "startwith"
    /\ options.randomize_smallkeys = "vanilla"
    /\ options.randomize_bigkeys = "keylock"
    /\ Len(mw_precollected) = Len(precollected_items) + 12
    /\ Count(mw_precollected, "FF Compass") = 1
    /\ LockedCount("DRC Small Key") = 4
    /\ Count(itempool, "WT Big Key") = 1
    /\ Len(itempool) = Len(pool) + 12 + 5


(***************************************************************************)
(* C19.  A dungeon item whose option is vanilla is locked onto the first   *)
(* location of its VANILLA_DUNGEON_ITEM_LOCATIONS list that holds no       *)
(* item; an item already placed is never replaced; when every listed       *)
(* location is occupied, FillError is raised.                              *)
(***************************************************************************)
\* one passage of the loop, from s to t
C19_Passage(s, t) ==
    LET item == s.gen.dungeon_items[s.gen.x]
        vanilla == DungeonItemOption(ITEM_TABLE[item].type, s.world.options) = "vanilla"
        list == VANILLA_DUNGEON_ITEM_LOCATIONS[item]
        before == s.multiworld.location_item
        after == t.multiworld.location_item
    IN  /\ \A l \in GenLocations : before[l] # "None" => after[l] = before[l]
        /\ t.gen.error = "FillError" =>
              /\ vanilla
              /\ \A k \in 1..Len(list) : before[list[k]] # "None"
              /\ after = before
        /\ (vanilla /\ t.gen.x # s.gen.x) =>
              \E k \in 1..Len(list) :
                  /\ before[list[k]] = "None"
                  /\ \A j \in 1..(k - 1) : before[list[j]] # "None"
                  /\ after = [before EXCEPT ![list[k]] = item]
                  /\ t.gen.error = "none"
        /\ (vanilla /\ \A k \in 1..Len(list) : before[list[k]] # "None") =>
              t.gen.error = "FillError" /\ t.gen.pc = "error"

C19_Step ==
    /\ \A l \in GenLocations : location_item[l] # "None" => location_item'[l] = location_item[l]
    /\ (CallsDungeonItems /\ gpc' # gpc) =>
          LET states == LoopStates
          IN  /\ \A i \in 1..(Len(states) - 1) : C19_Passage(states[i], states[i + 1])
              /\ location_item' = states[Len(states)].multiworld.location_item
              /\ gen_error' = states[Len(states)].gen.error

C19_Vanilla == [][C19_Step]_vars

\* a small key went to the second location of its list, the first being
\* filled earlier, and the last key then found every location occupied
C19_Witness ==
    /\ gen_error = "FillError"
    /\ x > 0
    /\ location_item["Dragon Roost Cavern - First Room"] = "Placed Earlier"
    /\ location_item["Dragon Roost Cavern - Boarded Up Chest"] = "DRC Small Key"
    /\ location_item["Dragon Roost Cavern - Bird's Nest"] = "DRC Small Key"


(***************************************************************************)
(* C20.  Item pool generation is deterministic: with the same item table,  *)
(* the same options and the same state of the multiworld's seeded          *)
(* generator, two runs of get_pool_core produce the same buckets, the      *)
(* filler entries substituted by better_filler included, and return the    *)
(* same pool.                                                              *)
(***************************************************************************)
C20_Deterministic ==
    run = 2 =>
        /\ gpc = "fill" => filler_pool = first_run.filler
        /\ gpc = "returned" => pool = first_run.pool

(***************************************************************************)
(* set_rules passes no location to set_rule twice: the locations of the    *)
(* calls made so far are all different.                                    *)
(***************************************************************************)
RuleOnce == Cardinality(Range(set_rule_calls)) = Len(set_rule_calls)

(***************************************************************************)
(* C22.  The better_filler substitution is one for one: the block appends  *)
(* to the filler pool as many entries as it removes chart entries (41 for  *)
(* the treasure charts, 8 for the triforce charts, 49 for both, 0 when     *)
(* neither removal applies), every appended entry is one of the 21 names   *)
(* of better_filler_items, the entries before them are the old pool        *)
(* without the removed charts, and the length of the filler pool is        *)
(* unchanged.                                                              *)
(***************************************************************************)
ChartNames == Range(TREASURE_CHARTS) \cup Range(TRIFORCE_CHARTS)

NotChart(item) == item \notin ChartNames

\* the charts the options exchange
C22_Charts ==
    (IF ~options.progression_treasure_charts
        /\ options.better_filler \in {"remove_treasure_charts", "remove_both_charts"}
     THEN Range(TREASURE_CHARTS) ELSE {})
    \cup (IF ~options.progression_triforce_charts
             /\ options.better_filler \in {"remove_triforce_charts", "remove_both_charts"}
          THEN Range(TRIFORCE_CHARTS) ELSE {})

\* the number of entries exchanged
C22_Exchanged ==
    IF C22_Charts = ChartNames THEN 49
    ELSE IF C22_Charts = Range(TREASURE_CHARTS) THEN 41
    ELSE IF C22_Charts = Range(TRIFORCE_CHARTS) THEN 8
    ELSE 0

C22_Kept(item) == item \notin C22_Charts

C22_Step ==
    (gpc = "better_filler" /\ gpc' = "fill") =>
        LET kept == Len(filler_pool') - C22_Exchanged
            charts_before == Len(filler_pool) - Len(SelectSeq(filler_pool, NotChart))
            charts_after == Len(filler_pool') - Len(SelectSeq(filler_pool', NotChart))
        IN  /\ Len(better_filler_items) = 21
            /\ Len(filler_pool') = Len(filler_pool)
            /\ charts_before - charts_after = C22_Exchanged
            /\ kept >= 0
            /\ C22_Exchanged > 0 =>
                  SubSeq(filler_pool', 1, kept) = SelectSeq(filler_pool, C22_Kept)
            /\ C22_Exchanged = 0 => filler_pool' = filler_pool
            /\ \A k \in (kept + 1)..Len(filler_pool') :
                  filler_pool'[k] \in Range(better_filler_items)

C22_OneForOne == [][C22_Step]_vars

\* both kinds of chart were filler and have been exchanged: the filler pool
\* holds no chart and ends with 49 names of better_filler_items, not all
\* the same
C22_Witness ==
    /\ gpc = "fill"
    /\ options.better_filler = "remove_both_charts"
    /\ ~options.progression_treasure_charts
    /\ ~options.progression_triforce_charts
    /\ Len(filler_pool) >= 49
    /\ \A k \in 1..Len(filler_pool) : NotChart(filler_pool[k])
    /\ \A k \in (Len(filler_pool) - 48)..Len(filler_pool) :
          filler_pool[k] \in Range(better_filler_items)
    /\ filler_pool[Len(filler_pool)] # filler_pool[Len(filler_pool) - 1]

(***************************************************************************)
(* C23.  A pass of check_locations marks a regular location only from the  *)
(* bitfield of the stage the player is in: a location that is not special  *)
(* is added (or, for the win condition, reported) only if its stage_id is   *)
(* the current stage id and its bit is set in the bitfield of its type, or *)
(* if the current stage id is 0, its stage_id is 1, it is a chest and its  *)
(* bit is set in the sea-alt bitfield; a regular location of any other     *)
(* stage is not added by the pass whatever the bitfields hold; and a       *)
(* special-cased location is evaluated in every pass, whatever the stage.  *)
(***************************************************************************)
\* the step in which check_locations reads the memory and scans the table
ScanStep == pc = "check_locations" /\ pc' \in {"goal_send", "checks_send", "tick"}

\* the same, or the scan ends with an exception
ScanOrRaise == pc = "check_locations" /\ pc' # pc

\* the stage of an entry of the table is the one a pass in the current stage looks at
C23_OwnStage(data) == data.stage_id = curr_stage_id

C23_SeaAlt(data) == curr_stage_id = 0 /\ data.stage_id = 1 /\ data.type = "CHEST"

\* the bit of an entry in the bitfield the claim names for it
C23_BitSet(data) ==
    IF C23_OwnStage(data)
    THEN IF data.type = "CHEST" THEN BitOf(chests_bitfield, data.bit) = 1
         ELSE data.type = "SWTCH" /\ BitOf(switches_bitfield, data.bit) = 1
    ELSE C23_SeaAlt(data) /\ BitOf(sea_alt_bitfield, data.bit) = 1

\* entries of every regular type and stage, and memories whose bitfields and
\* flag bytes are all clear or all set
RegularTypes == {"CHART", "BOCTO", "CHEST", "SWTCH", "PCKUP", "EVENT"}

SampleEntries ==
    [name : {"Sample"}, type : RegularTypes, stage_id : StageIds, bit : {0, 1},
     address : {1}, code : {1}]

SampleMemories ==
    [charts_bitfield : {0, 3}, sea_alt_bitfield : {0, 3}, chests_bitfield : {0, 3},
     switches_bitfield : {0, 3}, pickups_bitfield : {0, 3}, letter_owned : {0},
     dbag_contents : {[offset \in 1..8 |-> 255]}, bytes : [{1, 2} -> {0, 255}]]

\* a scan in `stage` marks the entry
Marks(data, stage, memory) == ~AssertionFails(data, stage) /\ IsChecked(data, stage, memory)

C23_AllTypes ==
    \A data \in SampleEntries : \A stage \in StageIds : \A memory \in SampleMemories :
        /\ Marks(data, stage, memory) =>
              \/ data.stage_id = stage /\ RegularChecked(data, memory)
              \/ /\ stage = 0 /\ data.stage_id = 1 /\ data.type = "CHEST"
                 /\ BitOf(memory.sea_alt_bitfield, data.bit) = 1
        /\ (data.stage_id = stage /\ RegularChecked(data, memory)) => Marks(data, stage, memory)

C23_Step ==
    ScanOrRaise =>
        \A k \in 1..Len(LOCATION_TABLE) :
            LET data == LOCATION_TABLE[k]
                id == TWWLocation_get_apid(data.code)
                marked == IF id = NoCode THEN ev' = "goal"
                          ELSE id \in locations_checked' \ locations_checked
            IN  IF data.type = "SPECL"
                THEN (ScanStep /\ mail_byte % 4 = 3) => id \in locations_checked'
                ELSE /\ marked => C23_BitSet(data)
                     /\ ~(C23_OwnStage(data) \/ C23_SeaAlt(data)) => ~marked

C23_CurrentStage ==
    /\ [][C23_Step]_vars
    /\ [](C23_AllTypes)

\* a pass in stage 8 has just sent the letter from Grandma, a special case of
\* stage 0, and has left out the chest of stage 0 although its bit is set
C23_Witness ==
    /\ ev = "checks"
    /\ pc = "checks_send"
    /\ curr_stage_id = 8
    /\ BitOf(chests_bitfield, 0) = 1
    /\ msg_locs = {TWWLocation_get_apid(3)}
    /\ TWWLocation_get_apid(1) \notin locations_checked

(***************************************************************************)
(* C24.  No received item is silently lost, whatever the order and the     *)
(* indices of the packets: whichever ReceivedItems packet the client is    *)
(* handed next, once on_package has handled it every item the packet       *)
(* carries is an entry of the pending queue under its index (from where    *)
(* give_items writes it to the give-item array).                           *)
(***************************************************************************)
\* the queue on_package leaves when handed the packet (index, n items)
C24_QueueAfter(index, n) ==
    ReceivedItemsList(items_received_2, last_rcvd_index, index, PacketItems(index, n))

C24_NoItemLost ==
    \A index \in 0..(MaxItems - 1) : \A n \in 1..(MaxItems - index) :
        \A j \in index..(index + n - 1) :
            \E k \in 1..Len(C24_QueueAfter(index, n)) :
                /\ C24_QueueAfter(index, n)[k].index = j
                /\ C24_QueueAfter(index, n)[k].item = ServerItem(j)

(***************************************************************************)
(* C25.  After any sequence of Connected and ReceivedItems packets the     *)
(* indices stored in items_received_2 are strictly increasing and          *)
(* last_rcvd_index is greater than every one of them; a Connected packet   *)
(* empties the queue and sets last_rcvd_index to -1; and a ReceivedItems   *)
(* packet whose index is below last_rcvd_index leaves both as they were.   *)
(***************************************************************************)
C25_State ==
    /\ \A j, k \in 1..Len(items_received_2) :
          j < k => items_received_2[j].index < items_received_2[k].index
    /\ \A k \in 1..Len(items_received_2) : items_received_2[k].index < last_rcvd_index
    /\ \A index \in 0..(MaxItems - 1) : \A n \in 1..(MaxItems - index) :
          index < last_rcvd_index =>
              /\ ReceivedItemsList(items_received_2, last_rcvd_index, index,
                                   PacketItems(index, n)) = items_received_2
              /\ ReceivedItemsLast(last_rcvd_index, index, PacketItems(index, n))
                    = last_rcvd_index

\* the step in which on_package handles a Connected packet
C25_ConnectedStep ==
    (~server_slot /\ server_slot') =>
        (items_received_2' = <<>> /\ last_rcvd_index' = 0 - 1)

C25_QueueIndices == [](C25_State) /\ [][C25_ConnectedStep]_vars

\* two packets with a gap between them have been handled: the queue holds
\* the indices 0 and 2, and the packet of index 1 would now be left out
C25_Witness ==
    /\ Len(items_received_2) = 2
    /\ items_received_2[1].index = 0
    /\ items_received_2[2].index = 2
    /\ last_rcvd_index = 3

(***************************************************************************)
(* C26.  With the game never lowering the expected-index counter, a        *)
(* received-item index is written into the give-item array at most once,   *)
(* over any sequence of passes, exceptions in the sync loop, Dolphin       *)
(* reconnects and server reconnects: every write is of a higher index than *)
(* the write before it, also when the step between the slot write and the  *)
(* counter write has failed.                                               *)
(***************************************************************************)
C26_WrittenOnce == last_writes[1] >= 0 => last_writes[1] < last_writes[2]

(***************************************************************************)
(* C27.  A death is announced at most once, and a death received through   *)
(* death-link is not echoed: a death-link event is sent only with          *)
(* has_send_death clear and sets it; has_send_death is also set when       *)
(* _give_death sets the health to 0; while has_send_death is set and the   *)
(* health stays 0 it stays set and nothing is sent; and it is cleared only *)
(* by a pass of check_death that reads a health above 0.                   *)
(***************************************************************************)
HealthZero(bytes) == read_short(bytes) = 0

C27_Step ==
    /\ ev' = "death" => (~has_send_death /\ has_send_death')
    /\ (~has_send_death /\ has_send_death' /\ ev' # "death") => HealthZero(mem_health')
    /\ (has_send_death /\ HealthZero(mem_health) /\ HealthZero(mem_health')) =>
          (has_send_death' /\ ev' # "death")
    /\ (has_send_death /\ ~has_send_death') =>
          (pc = "check_death" /\ check_ingame(stage_name) /\ read_short(mem_health) > 0)

C27_OncePerDeath == [][C27_Step]_vars

\* the last death was sent, or received and given to the player, at least
\* 3 s ago; the health is still 0, and a pass of check_death has just read
\* it and has sent nothing
C27_Witness ==
    /\ pc = "give_items"
    /\ death_link
    /\ server_slot
    /\ check_ingame(stage_name)
    /\ has_send_death
    /\ HealthZero(mem_health)
    /\ now >= last_death_link + DEATH_LINK_COOLDOWN
    /\ ev = "none"

(***************************************************************************)
(* C28.  At every suspension point of dolphin_sync_task a hooked client    *)
(* reports CONNECTION_CONNECTED_STATUS: the paths that record a refused or *)
(* lost status (wrong game, not in the save, exception) un_hook before the *)
(* task sleeps.  A pass of check_death, give_items and check_locations is  *)
(* started only while hooked, with the status connected and with           *)
(* ctx.server and ctx.slot set, and each of its memory operations happens  *)
(* while hooked with the status connected.  As the claim states it, each   *)
(* memory operation would also happen with ctx.server and ctx.slot set:    *)
(* these are tested once, at the start of the pass, and the server can     *)
(* drop while give_items waits for a free slot.                            *)
(***************************************************************************)
\* a step of check_death, give_items or check_locations that reads or
\* writes game memory (the handler's step is not one)
MemoryStep ==
    /\ TouchesMemory
    /\ <<pc, give_pos>>' # <<pc, give_pos>>
    /\ ev' # "exception"

\* the loop enters the connected branch and calls the first function of a pass
PassStart == pc = "loop" /\ pc' \in {"check_death", "give_items"}

C28_Suspended ==
    (pc \in SuspendPcs /\ hooked) => dolphin_status = CONNECTION_CONNECTED_STATUS

C28_PassStep ==
    PassStart => (hooked /\ dolphin_status = CONNECTION_CONNECTED_STATUS /\ server_slot)

C28_MemoryHooked ==
    MemoryStep => (hooked /\ dolphin_status = CONNECTION_CONNECTED_STATUS)

C28_MemoryServer ==
    MemoryStep => server_slot

C28_HookedConnected ==
    /\ [](C28_Suspended)
    /\ [][C28_PassStep /\ C28_MemoryHooked]_vars

\* the claim as stated: the server and the slot are set at every memory operation
C28_Original ==
    /\ [](C28_Suspended)
    /\ [][C28_PassStep /\ C28_MemoryHooked /\ C28_MemoryServer]_vars

\* the server dropped while give_items slept in its wait for a free slot;
\* the sleep is over and the pass reads the slots again
C28_Witness ==
    /\ pc = "give_loop"
    /\ TouchesMemory
    /\ ~server_slot
    /\ hooked
    /\ dolphin_status = CONNECTION_CONNECTED_STATUS

(***************************************************************************)
(* C29.  _give_item never overwrites an item the game has not consumed: a  *)
(* slot takes an item's id only when it held 0xFF, one slot per call; when *)
(* no slot holds 0xFF the call writes nothing and returns False (the pass  *)
(* sleeps); no ITEM_TABLE entry has the in-game id 0xFF, so that the slot  *)
(* written is occupied after the write and stays so until the game resets  *)
(* it.                                                                     *)
(***************************************************************************)
Slots == 0..(len_give_item_array - 1)

\* no entry of ITEM_TABLE has item_id 0xFF
C29_NoFreeId == \A k \in 1..Len(ITEM_ROWS) : ITEM_ROWS[k].item_id # FREE_SLOT

\* a slot that takes an item's id held 0xFF before
C29_IntoFree ==
    \A i \in Slots :
        (give_array'[i] # give_array[i] /\ give_array'[i] # FREE_SLOT) => give_array[i] = FREE_SLOT

\* the write of _give_item fills exactly one slot, which is no longer free
C29_OneSlot ==
    (ev' = "write") =>
        \E i \in Slots :
            /\ give_array[i] = FREE_SLOT
            /\ give_array'[i] # FREE_SLOT
            /\ \A j \in Slots \ {i} : give_array'[j] = give_array[j]

\* all slots occupied: the call writes nothing and returns False
C29_Full ==
    (pc = "give_loop" /\ pc' # pc /\ TouchesMemory /\ FreeSlots(give_array) = {}) =>
        (give_array' = give_array /\ pc' = "give_wait")

\* a slot becomes free again only by the game (no step of the client does it)
C29_Reset ==
    \A i \in Slots :
        (give_array[i] # FREE_SLOT /\ give_array'[i] = FREE_SLOT) => UNCHANGED <<syncVars, ctxVars>>

C29_Step == C29_IntoFree /\ C29_OneSlot /\ C29_Full /\ C29_Reset

C29_NeverOverwrites == [](C29_NoFreeId) /\ [][C29_Step]_vars

\* the client has filled every slot the game had free, found no free slot for
\* the next item, and sleeps
C29_Witness ==
    /\ pc = "give_wait"
    /\ FreeSlots(give_array) = {}
    /\ Cardinality(pass_written) = ActiveSlots
    /\ give_pos <= Len(LoopList)

(***************************************************************************)
(* C30.  With every dungeon-item option vanilla and every vanilla location *)
(* empty at the start, handle_dungeon_items raises no FillError and looks  *)
(* up no missing key: every dungeon item of ITEM_TABLE (Big Key, Small     *)
(* Key, Map, Compass) has a list in VANILLA_DUNGEON_ITEM_LOCATIONS with as *)
(* many locations as the table gives the item copies, and no location is   *)
(* in the lists of two items, so that every copy is locked onto a location *)
(* of its own list.                                                        *)
(***************************************************************************)
DungeonItemNames ==
    {ITEM_ROWS[k].name : k \in {j \in 1..Len(ITEM_ROWS) :
                                    ITEM_ROWS[j].type \in {"Big Key", "Small Key", "Map", "Compass"}}}

AllVanilla(opts) ==
    /\ opts.randomize_bigkeys = "vanilla"
    /\ opts.randomize_smallkeys = "vanilla"
    /\ opts.randomize_mapcompass = "vanilla"

\* the copies of an item that are locked onto a location
PlacedCopies(name) == Cardinality({l \in GenLocations : location_item[l] = name})

C30_Table ==
    /\ \A n \in DungeonItemNames :
          /\ n \in DOMAIN VANILLA_DUNGEON_ITEM_LOCATIONS
          /\ Len(VANILLA_DUNGEON_ITEM_LOCATIONS[n]) = ITEM_TABLE[n].quantity
          /\ Cardinality(Range(VANILLA_DUNGEON_ITEM_LOCATIONS[n])) = ITEM_TABLE[n].quantity
    /\ \A n, m \in DOMAIN VANILLA_DUNGEON_ITEM_LOCATIONS :
          n # m => Range(VANILLA_DUNGEON_ITEM_LOCATIONS[n]) \cap
                   Range(VANILLA_DUNGEON_ITEM_LOCATIONS[m]) = {}

C30_AllVanilla ==
    /\ C30_Table
    /\ (AllVanilla(options) /\ occupied = {}) =>
          /\ gen_error \notin {"FillError", "KeyError"}
          /\ CallsDungeonItems =>
                LET states == LoopStates
                IN  \A i \in 1..Len(states) : \A n \in DungeonItemNames :
                        Cardinality({l \in GenLocations :
                                        states[i].multiworld.location_item[l] = n}) +
                        Cardinality({k \in 1..states[i].gen.x :
                                        states[i].gen.dungeon_items[k] = n})
                            = ITEM_TABLE[n].quantity
          /\ gpc = "done" =>
                /\ dungeon_items = <<>>
                /\ \A n \in DungeonItemNames : PlacedCopies(n) = ITEM_TABLE[n].quantity

\* every option is vanilla, every location was free, and handle_dungeon_items
\* has returned: the four DRC small keys are on the four locations of their list
C30_Witness ==
    /\ AllVanilla(options)
    /\ occupied = {}
    /\ gpc = "done"
    /\ gen_error = "none"
    /\ \A k \in 1..4 :
          location_item[VANILLA_DUNGEON_ITEM_LOCATIONS["DRC Small Key"][k]] = "DRC Small Key"

=============================================================================
